---- MODULE Spec2Model ----
(***************************************************************************)
(* Model of gatling's host program (src/gatling/main.c): the wavefront     *)
(* scheduler that records ray batches into one command stream, plus the    *)
(* set-up and tear-down around it.  The GPU backend (cgpu) is an external  *)
(* collaborator here: every call returns CGPU_OK or a failure code.        *)
(***************************************************************************)
EXTENDS Integers, Sequences, FiniteSets, TLC

(* ------------------------------------------------------------------ *)
(* Bounds of the model.                                                 *)
(* ------------------------------------------------------------------ *)
\* uint32_t is modelled with WordBits bits, uint64_t with 2*WordBits bits.
WordBits == 7
\* --image-height ranges over 1..MaxHeight
MaxHeight == 3
\* --spp ranges over 1..MaxSpp
MaxSpp == 2
\* --pool-ray-count ranges over 0..MaxPool and UINT32_MAX
MaxPool == 2
\* --bounces ranges over 0..MaxBounces and UINT32_MAX
MaxBounces == 1
\* the while loop of main is cut after MaxBatches iterations
MaxBatches == 3
\* at most MaxFailures backend calls fail in one run
MaxFailures == 1

(* ------------------------------------------------------------------ *)
(* Fixed-width arithmetic.                                              *)
(* ------------------------------------------------------------------ *)
UINT32_MOD == 2 ^ WordBits
UINT32_MAX == UINT32_MOD - 1
UINT64_MOD == 2 ^ (2 * WordBits)
U32(x) == x % UINT32_MOD
U64(x) == x % UINT64_MOD
Min(a, b) == IF a < b THEN a ELSE b
\* CGPU_WHOLE_SIZE is ~0ULL
CGPU_WHOLE_SIZE == UINT64_MOD - 1

(* ------------------------------------------------------------------ *)
(* Program constants.                                                   *)
(* ------------------------------------------------------------------ *)
path_seg_struct_size == 48
hit_info_struct_size == 48
path_seg_header_size == 16
hit_info_header_size == 16
path_segment_buf_offset == 0

CgpuResults == {"CGPU_OK", "CGPU_FAIL"}

\* --image-width is zero, one or the largest value
ImageWidths == {0, 1, UINT32_MAX}
ImageHeights == 1 .. MaxHeight
Spps == 1 .. MaxSpp
PoolRayCounts == (0 .. MaxPool) \cup {UINT32_MAX}
BounceCounts == (0 .. MaxBounces) \cup {UINT32_MAX}

\* the program_options that gatling_parse_args accepts (within the bounds)
ProgramOptions ==
  [image_width : ImageWidths, image_height : ImageHeights, spp : Spps,
   bounces : BounceCounts, pool_ray_count : PoolRayCounts]

\* the limits a device may report (cgpu_physical_device_limits)
DeviceLimits ==
  { [subgroupSize |-> 1, maxComputeWorkGroupSize0 |-> 4,
     maxComputeWorkGroupCount0 |-> UINT32_MAX,
     minStorageBufferOffsetAlignment |-> 16],
    [subgroupSize |-> 2, maxComputeWorkGroupSize0 |-> 8,
     maxComputeWorkGroupCount0 |-> 8,
     minStorageBufferOffsetAlignment |-> 32] }

\* the buffer sizes a scene file's header may hold
FileHeaders ==
  { [node_buf_size |-> 100, face_buf_size |-> 300,
     vertex_buf_size |-> 50, material_buf_size |-> 20] }

NoLimits ==
  [subgroupSize |-> 1, maxComputeWorkGroupSize0 |-> 0,
   maxComputeWorkGroupCount0 |-> 0, minStorageBufferOffsetAlignment |-> 1]
NoHeader ==
  [node_buf_size |-> 0, face_buf_size |-> 0,
   vertex_buf_size |-> 0, material_buf_size |-> 0]

Kernels == <<"ray_gen", "extend", "shade">>
Buffers == <<"input", "staging", "intermediate", "output", "timestamp">>

VARIABLES
  pc,            \* the statement of main that runs next
  exit_status,   \* "running", "EXIT_SUCCESS" or "EXIT_FAILURE"
  options,       \* program_options
  device_limits, \* cgpu_physical_device_limits
  file_header,   \* header of the mapped scene file
  item,          \* index inside a repeated group (buffers, pipelines)
  calls,         \* history: backend calls issued, first failing call
  resources,     \* backend objects created and not destroyed: <<kind, name>>
  mapped_buffers,\* buffers currently mapped into host memory
  open_files,    \* files currently open
  mapped_files,  \* files with a range currently mapped
  output_file,   \* "absent" or "written"
  cmd_state,     \* "initial", "recording", "executable", "pending"
  cmds,          \* the commands recorded into command_buffer
  bound_pipeline,\* pipeline bound by the last cgpu_cmd_bind_pipeline
  push_consts,   \* constants set by the last cgpu_cmd_push_constants
  ray_offset,    \* main's loop variable
  bounce,        \* main's inner loop variable
  fence_state,   \* "none", "signaled", "unsignaled"
  submissions,   \* history: successful cgpu_submit_command_buffer calls
  in_flight,     \* a submission is executing on the device
  waited,        \* history: cgpu_wait_for_fence has returned CGPU_OK
  staging_data,  \* what the staging buffer holds
  image_data,    \* what main copied out of the staging buffer
  alignment,     \* the offset_alignment of the layout being packed
  requests,      \* the buffer_size of each gatling_align_buffer call, in order
  offsets,       \* the offsets the calls made so far have returned
  running_total, \* *total_size
  layout_status, \* "idle", "packing" or "trapped"
  stores,        \* idevice_store, ifence_store: slots and free-list of each
  live,          \* history: <<store, handle>> issued to a caller and not freed
  nlive,         \* history: successful create calls minus successful destroy calls
  freed,         \* history: <<store, handle>> that have been freed
  frees_done,    \* history: the resource_store_free_handle calls that freed a slot
  last_call,     \* history: the result of the last cgpu call on handles
  mapped_ranges, \* file->mapped_ranges: addr and byte_count of each entry
  address_space, \* the addresses the operating system has mapped
  file_call,     \* history: the last gatling_mmap or gatling_munmap call
  unmaps,        \* history: the gatling_munmap calls that cleared an entry
  argv,          \* the command line after the program name
  arg_index,     \* i of the loop of gatling_parse_args
  parsed,        \* *options as gatling_parse_args has filled it so far
  parse_status,  \* "idle", "start", "parsing", "done" or "usage"
  frame,         \* the cgpu function being executed: arguments, locals, rest
  call_count     \* history: the cgpu functions entered so far

progVars == <<options, device_limits, file_header>>
fileVars == <<open_files, mapped_files, output_file>>
cmdVars == <<cmd_state, cmds, bound_pipeline, push_consts>>
loopVars == <<ray_offset, bounce>>
gpuVars == <<resources, mapped_buffers, fence_state, submissions, in_flight,
             waited, staging_data, image_data>>
mainVars == <<pc, exit_status, item, calls, progVars, fileVars, cmdVars, loopVars,
              gpuVars>>
packVars == <<alignment, requests, offsets, running_total, layout_status>>
\* the state of the components that are verified on their own
storeVars == <<stores, live, nlive, freed, frees_done, last_call>>
tableVars == <<mapped_ranges, address_space, file_call, unmaps>>
argVars == <<argv, arg_index, parsed, parse_status>>
callVars == <<frame, call_count>>
extVars == <<tableVars, argVars, callVars>>
unitVars == <<packVars, storeVars, extVars>>
vars == <<pc, exit_status, item, calls, progVars, fileVars, cmdVars, loopVars,
          gpuVars, unitVars>>

(* ------------------------------------------------------------------ *)
(* Buffer layout (main.c 338-350, 425-448).                             *)
(* ------------------------------------------------------------------ *)
\* faulty variant: the offset is rounded down to a multiple of the alignment
gatling_align_buffer_mut(offset_alignment, buffer_size, total_size) ==
  LET offset == U64(U64(total_size \div offset_alignment) * offset_alignment)
  IN  <<offset, U64(offset + buffer_size)>>
\* gatling_align_buffer: <<offset, new total_size>>
gatling_align_buffer(offset_alignment, buffer_size, total_size) ==
  LET offset ==
        U64(U64(U64(total_size + offset_alignment - 1) \div offset_alignment)
            * offset_alignment)
  IN  <<offset, U64(offset + buffer_size)>>

offset_align == device_limits.minStorageBufferOffsetAlignment

total_ray_count ==
  U64(options.image_width * options.image_height * options.spp)
\* faulty variant: the pool is as large as the whole workload
ray_pool_size_mut == total_ray_count
ray_pool_size ==
  IF total_ray_count < options.pool_ray_count
  THEN total_ray_count ELSE options.pool_ray_count

path_segment_buf_size ==
  U64(ray_pool_size * path_seg_struct_size + path_seg_header_size)
hit_info_buf_size ==
  U64(ray_pool_size * hit_info_struct_size + hit_info_header_size)
hit_info_buf_offset ==
  gatling_align_buffer(offset_align, hit_info_buf_size,
                       U64(path_segment_buf_offset + path_segment_buf_size))[1]
intermediate_buf_size ==
  gatling_align_buffer(offset_align, hit_info_buf_size,
                       U64(path_segment_buf_offset + path_segment_buf_size))[2]

\* the running totals of the four scene sub-buffers, in declaration order
SceneLayout ==
  LET n == gatling_align_buffer(offset_align, file_header.node_buf_size, 0)
      f == gatling_align_buffer(offset_align, file_header.face_buf_size, n[2])
      v == gatling_align_buffer(offset_align, file_header.vertex_buf_size, f[2])
      m == gatling_align_buffer(offset_align, file_header.material_buf_size, v[2])
  IN  [new_node_buf_offset |-> n[1], new_face_buf_offset |-> f[1],
       new_vertex_buf_offset |-> v[1], new_material_buf_offset |-> m[1],
       device_buf_size |-> m[2]]
device_buf_size == SceneLayout.device_buf_size

\* uint32_t * uint32_t wraps before it is widened by sizeof(float) * 4
output_buffer_size ==
  U64(U32(options.image_width * options.image_height) * 4 * 4)
staging_buffer_size ==
  IF output_buffer_size > device_buf_size
  THEN output_buffer_size ELSE device_buf_size

(* ------------------------------------------------------------------ *)
(* Recorded commands.                                                   *)
(* ------------------------------------------------------------------ *)
NoPush == [pixel_index_offset |-> 0, sample_index_offset |-> 0, ray_pool_size |-> 0]
NoCopy == [src |-> "none", dst |-> "none", size |-> 0]

Command(op, pipeline, groups, push, barriers, copy) ==
  [op |-> op, pipeline |-> pipeline, groups |-> groups, push |-> push,
   barriers |-> barriers, copy |-> copy, at |-> ray_offset]

\* cgpu_cmd_dispatch: runs the bound pipeline with the pushed constants
DispatchCmd(dim_x, dim_y, dim_z) ==
  Command("dispatch", bound_pipeline, <<dim_x, dim_y, dim_z>>, push_consts, {}, NoCopy)
\* cgpu_cmd_pipeline_barrier with a set of cgpu_buffer_memory_barrier
BarrierCmd(buffer_barriers) ==
  Command("barrier", "none", <<0, 0, 0>>, NoPush, buffer_barriers, NoCopy)
\* cgpu_cmd_copy_buffer
CopyCmd(src, dst, size) ==
  Command("copy", "none", <<0, 0, 0>>, NoPush, {}, [src |-> src, dst |-> dst, size |-> size])
\* cgpu_cmd_reset_timestamps, cgpu_cmd_write_timestamp, cgpu_cmd_copy_timestamps
TimestampCmd(op) ==
  Command(op, "none", <<0, 0, 0>>, NoPush, {}, NoCopy)

Record(result, cmd) == IF result = "CGPU_OK" THEN Append(cmds, cmd) ELSE cmds

buffer_memory_barrier_1 ==
  { [src_access_flags |-> {"TRANSFER_WRITE"}, dst_access_flags |-> {"SHADER_READ"},
     buffer |-> "input", offset |-> 0, size |-> CGPU_WHOLE_SIZE] }
buffer_memory_barrier_2 ==
  { [src_access_flags |-> {"SHADER_WRITE"}, dst_access_flags |-> {"SHADER_READ"},
     buffer |-> "intermediate", offset |-> path_segment_buf_offset,
     size |-> path_segment_buf_size] }
\* faulty variant: the barrier before Shade leaves out the output buffer
buffer_memory_barrier_3_mut ==
  { [src_access_flags |-> {"SHADER_WRITE"}, dst_access_flags |-> {"SHADER_READ"},
     buffer |-> "intermediate", offset |-> hit_info_buf_offset,
     size |-> hit_info_buf_size] }
buffer_memory_barrier_3 ==
  { [src_access_flags |-> {"SHADER_WRITE"}, dst_access_flags |-> {"SHADER_READ"},
     buffer |-> "intermediate", offset |-> hit_info_buf_offset,
     size |-> hit_info_buf_size],
    [src_access_flags |-> {"SHADER_WRITE"},
     dst_access_flags |-> {"SHADER_READ", "SHADER_WRITE"},
     buffer |-> "output", offset |-> 0, size |-> CGPU_WHOLE_SIZE] }
\* faulty variant: the barrier before the read-back copy orders shader reads only
buffer_memory_barrier_4_mut ==
  { [src_access_flags |-> {"SHADER_WRITE"}, dst_access_flags |-> {"SHADER_READ"},
     buffer |-> "output", offset |-> 0, size |-> CGPU_WHOLE_SIZE] }
buffer_memory_barrier_4 ==
  { [src_access_flags |-> {"SHADER_WRITE"}, dst_access_flags |-> {"TRANSFER_READ"},
     buffer |-> "output", offset |-> 0, size |-> CGPU_WHOLE_SIZE] }

\* the regions every pipeline is bound to, in the order of their bindings
\* 0..6: <<binding, buffer, offset, size>>
shader_resource_buffers ==
  << <<0, "output", 0, CGPU_WHOLE_SIZE>>,
     <<1, "intermediate", path_segment_buf_offset, path_segment_buf_size>>,
     <<2, "input", SceneLayout.new_node_buf_offset, file_header.node_buf_size>>,
     <<3, "input", SceneLayout.new_face_buf_offset, file_header.face_buf_size>>,
     <<4, "input", SceneLayout.new_vertex_buf_offset, file_header.vertex_buf_size>>,
     <<5, "input", SceneLayout.new_material_buf_offset, file_header.material_buf_size>>,
     <<6, "intermediate", hit_info_buf_offset, hit_info_buf_size>> >>

rays_left == U64(total_ray_count - ray_offset)
\* faulty variant: the last batch is not cut down to the rays that are left
pool_size_mut == U32(ray_pool_size)
pool_size == U32(IF rays_left < ray_pool_size THEN rays_left ELSE ray_pool_size)
gen_push_consts ==
  [pixel_index_offset |-> U32(ray_offset \div options.spp),
   sample_index_offset |-> U32(ray_offset % options.spp),
   ray_pool_size |-> pool_size]

Dispatches == SelectSeq(cmds, LAMBDA c : c.op = "dispatch")
Generates == SelectSeq(cmds, LAMBDA c : c.op = "dispatch" /\ c.pipeline = "ray_gen")

(* ------------------------------------------------------------------ *)
(* Error handling (main.c 42-61).                                       *)
(* ------------------------------------------------------------------ *)
\* history of the backend calls: how many were issued, which failed first
Issue(op, result) ==
  calls' = [ncalls |-> calls.ncalls + 1,
            nfailed |-> calls.nfailed + (IF result # "CGPU_OK" THEN 1 ELSE 0),
            failed_op |-> IF calls.failed_op = "none" /\ result # "CGPU_OK"
                          THEN op ELSE calls.failed_op,
            fail_no |-> IF calls.fail_no = 0 /\ result # "CGPU_OK"
                        THEN calls.ncalls + 1 ELSE calls.fail_no]

\* the results the next backend call may return
Outcomes ==
  IF calls.nfailed < MaxFailures THEN CgpuResults ELSE {"CGPU_OK"}

gatling_fail ==
  /\ pc' = "exit"
  /\ exit_status' = "EXIT_FAILURE"

\* faulty variant: a failure is ignored and the program goes on
gatling_cgpu_ensure_mut(result, next) ==
  /\ pc' = next
  /\ exit_status' = exit_status
gatling_cgpu_ensure(result, next) ==
  IF result # "CGPU_OK"
  THEN gatling_fail
  ELSE pc' = next /\ exit_status' = exit_status

\* one checked backend call at statement `here`
Call(here, result, next) ==
  /\ pc = here
  /\ Issue(here, result)
  /\ gatling_cgpu_ensure(result, next)

Created(result, kind, name) ==
  IF result = "CGPU_OK" THEN resources \cup {<<kind, name>>} ELSE resources
Destroyed(result, kind, name) ==
  IF result = "CGPU_OK" THEN resources \ {<<kind, name>>} ELSE resources

(* ------------------------------------------------------------------ *)
(* main: set-up (main.c 352-544).                                       *)
(* ------------------------------------------------------------------ *)
\* main has not run yet and was given the options `opts`
MainStart(opts) ==
  /\ pc = "cgpu_initialize"
  /\ exit_status = "running"
  /\ options = opts
  /\ device_limits = NoLimits
  /\ file_header = NoHeader
  /\ item = 1
  /\ calls = [ncalls |-> 0, nfailed |-> 0, failed_op |-> "none", fail_no |-> 0]
  /\ resources = {}
  /\ mapped_buffers = {}
  /\ open_files = {}
  /\ mapped_files = {}
  /\ output_file = "absent"
  /\ cmd_state = "initial"
  /\ cmds = <<>>
  /\ bound_pipeline = "none"
  /\ push_consts = NoPush
  /\ ray_offset = 0
  /\ bounce = 0
  /\ fence_state = "none"
  /\ submissions = 0
  /\ in_flight = FALSE
  /\ waited = FALSE
  /\ staging_data = "undefined"
  /\ image_data = "none"

\* no layout is being packed
LayoutIdle ==
  /\ alignment = 1
  /\ requests = <<>>
  /\ offsets = <<>>
  /\ running_total = 0
  /\ layout_status = "idle"

\* cgpu_initialize has not created the stores yet
StoresIdle ==
  /\ stores = <<>>
  /\ live = {}
  /\ nlive = 0
  /\ freed = {}
  /\ frees_done = 0
  /\ last_call = [result |-> "none", stale |-> FALSE]

\* no file table is under test
TableIdle ==
  /\ mapped_ranges = <<>>
  /\ address_space = {}
  /\ file_call = [op |-> "none"]
  /\ unmaps = 0

\* no command line is being parsed
ArgsIdle ==
  /\ argv = <<>>
  /\ arg_index = 0
  /\ parsed = <<>>
  /\ parse_status = "idle"

\* no cgpu function is being stepped through
CallsIdle ==
  /\ frame = [fn |-> "none"]
  /\ call_count = 0

ExtIdle == TableIdle /\ ArgsIdle /\ CallsIdle

Init ==
  /\ \E opts \in ProgramOptions : MainStart(opts)
  /\ LayoutIdle
  /\ StoresIdle
  /\ ExtIdle

CgpuInitialize ==
  /\ \E r \in Outcomes :
       /\ pc = "cgpu_initialize"
       /\ Issue("cgpu_initialize", r)
       /\ IF r # "CGPU_OK"
          THEN gatling_fail
          ELSE pc' = "get_device_count" /\ exit_status' = exit_status
       /\ resources' = Created(r, "instance", "cgpu")
  /\ UNCHANGED <<item, progVars, unitVars, fileVars, cmdVars, loopVars, mapped_buffers,
                 fence_state, submissions, in_flight, waited, staging_data, image_data>>

GetDeviceCount ==
  /\ pc = "get_device_count"
  /\ \E r \in Outcomes, device_count \in {0, 1} :
       /\ Issue("get_device_count", r)
       /\ IF r # "CGPU_OK" \/ device_count = 0
          THEN gatling_fail
          ELSE pc' = "create_device" /\ exit_status' = exit_status
  /\ UNCHANGED <<item, progVars, unitVars, fileVars, cmdVars, loopVars, gpuVars>>

CreateDevice ==
  /\ \E r \in Outcomes :
       /\ pc = "create_device"
       /\ Issue("create_device", r)
       /\ IF r # "CGPU_OK"
          THEN gatling_fail
          ELSE pc' = "get_physical_device_limits" /\ exit_status' = exit_status
       /\ resources' = Created(r, "device", "0")
  /\ UNCHANGED <<item, progVars, unitVars, fileVars, cmdVars, loopVars, mapped_buffers,
                 fence_state, submissions, in_flight, waited, staging_data, image_data>>

GetPhysicalDeviceLimits ==
  /\ \E r \in Outcomes :
       /\ Call("get_physical_device_limits", r, "scene_file_open")
       /\ IF r = "CGPU_OK"
          THEN device_limits' \in DeviceLimits
          ELSE device_limits' = device_limits
  /\ UNCHANGED <<item, unitVars, options, file_header, fileVars, cmdVars, loopVars, gpuVars>>

SceneFileOpen ==
  /\ pc = "scene_file_open"
  /\ \E ok \in BOOLEAN :
       IF ok
       THEN /\ open_files' = open_files \cup {"scene"}
            /\ pc' = "scene_mmap"
            /\ exit_status' = exit_status
       ELSE /\ open_files' = open_files
            /\ gatling_fail
  /\ UNCHANGED <<item, calls, progVars, unitVars, mapped_files, output_file, cmdVars,
                 loopVars, gpuVars>>

\* gatling_mmap of the scene file, the header read and the layout (384-448)
SceneMmap ==
  /\ pc = "scene_mmap"
  /\ \E mapped \in BOOLEAN :
       IF mapped
       THEN /\ mapped_files' = mapped_files \cup {"scene"}
            /\ file_header' \in FileHeaders
            /\ item' = 1
            /\ pc' = "create_buffer"
            /\ exit_status' = exit_status
       ELSE /\ mapped_files' = mapped_files
            /\ file_header' = file_header
            /\ item' = item
            /\ gatling_fail
  /\ UNCHANGED <<calls, unitVars, options, device_limits, open_files, output_file, cmdVars,
                 loopVars, gpuVars>>

\* the five cgpu_create_buffer calls, in the order of Buffers
CreateBuffer ==
  /\ \E r \in Outcomes :
       /\ Call("create_buffer", r,
               IF item = Len(Buffers) THEN "map_staging_upload" ELSE "create_buffer")
       /\ resources' = Created(r, "buffer", Buffers[item])
       /\ item' = IF r = "CGPU_OK" THEN item + 1 ELSE item
  /\ UNCHANGED <<progVars, unitVars, fileVars, cmdVars, loopVars, mapped_buffers,
                 fence_state, submissions, in_flight, waited, staging_data, image_data>>

\* cgpu_map_buffer of the staging buffer and the four memcpy of scene data
MapStagingUpload ==
  /\ \E r \in Outcomes :
       /\ Call("map_staging_upload", r, "unmap_staging_upload")
       /\ mapped_buffers' = IF r = "CGPU_OK" THEN mapped_buffers \cup {"staging"}
                            ELSE mapped_buffers
       /\ staging_data' = IF r = "CGPU_OK" THEN "scene" ELSE staging_data
  /\ UNCHANGED <<item, progVars, unitVars, fileVars, cmdVars, loopVars, resources,
                 fence_state, submissions, in_flight, waited, image_data>>

UnmapStagingUpload ==
  /\ \E r \in Outcomes :
       /\ Call("unmap_staging_upload", r, "create_command_buffer")
       /\ mapped_buffers' = IF r = "CGPU_OK" THEN mapped_buffers \ {"staging"}
                            ELSE mapped_buffers
  /\ UNCHANGED <<item, progVars, unitVars, fileVars, cmdVars, loopVars, resources,
                 fence_state, submissions, in_flight, waited, staging_data, image_data>>

CreateCommandBuffer ==
  /\ \E r \in Outcomes :
       /\ Call("create_command_buffer", r, "scene_unmap_close")
       /\ resources' = Created(r, "command_buffer", "0")
  /\ UNCHANGED <<item, progVars, unitVars, fileVars, cmdVars, loopVars, mapped_buffers,
                 fence_state, submissions, in_flight, waited, staging_data, image_data>>

\* faulty variant: the scene file is closed with its range still mapped
SceneUnmapClose_mut ==
  /\ pc = "scene_unmap_close"
  /\ open_files' = open_files \ {"scene"}
  /\ item' = 1
  /\ pc' = "shader_file_open"
  /\ UNCHANGED <<exit_status, calls, progVars, unitVars, mapped_files, output_file,
                 cmdVars, loopVars, gpuVars>>
\* gatling_munmap and gatling_file_close of the scene file (main.c 542-543)
SceneUnmapClose ==
  /\ pc = "scene_unmap_close"
  /\ mapped_files' = mapped_files \ {"scene"}
  /\ open_files' = open_files \ {"scene"}
  /\ item' = 1
  /\ pc' = "shader_file_open"
  /\ UNCHANGED <<exit_status, calls, progVars, unitVars, output_file, cmdVars, loopVars, gpuVars>>

(* ------------------------------------------------------------------ *)
(* gatling_create_pipeline, called for each of Kernels (main.c 122-176).*)
(* ------------------------------------------------------------------ *)
ShaderFileOpen ==
  /\ pc = "shader_file_open"
  /\ \E ok \in BOOLEAN :
       IF ok
       THEN /\ open_files' = open_files \cup {Kernels[item]}
            /\ pc' = "shader_mmap"
            /\ exit_status' = exit_status
       ELSE /\ open_files' = open_files
            /\ gatling_fail
  /\ UNCHANGED <<item, calls, progVars, unitVars, mapped_files, output_file, cmdVars,
                 loopVars, gpuVars>>

ShaderMmap ==
  /\ pc = "shader_mmap"
  /\ \E mapped \in BOOLEAN :
       IF mapped
       THEN /\ mapped_files' = mapped_files \cup {Kernels[item]}
            /\ pc' = "create_shader"
            /\ exit_status' = exit_status
       ELSE /\ mapped_files' = mapped_files
            /\ gatling_fail
  /\ UNCHANGED <<item, calls, progVars, unitVars, open_files, output_file, cmdVars,
                 loopVars, gpuVars>>

\* cgpu_create_shader, then gatling_munmap and gatling_file_close, then the check
CreateShader ==
  /\ pc = "create_shader"
  /\ \E r \in Outcomes :
       /\ Issue("create_shader", r)
       /\ resources' = Created(r, "shader", Kernels[item])
       /\ IF r # "CGPU_OK"
          THEN gatling_fail
          ELSE pc' = "create_pipeline" /\ exit_status' = exit_status
  /\ mapped_files' = mapped_files \ {Kernels[item]}
  /\ open_files' = open_files \ {Kernels[item]}
  /\ UNCHANGED <<item, progVars, unitVars, output_file, cmdVars, loopVars, mapped_buffers,
                 fence_state, submissions, in_flight, waited, staging_data, image_data>>

CreatePipeline ==
  /\ \E r \in Outcomes :
       /\ Call("create_pipeline", r,
               IF item = Len(Kernels) THEN "begin_command_buffer"
               ELSE "shader_file_open")
       /\ resources' = Created(r, "pipeline", Kernels[item])
       /\ item' = IF r = "CGPU_OK" THEN item + 1 ELSE item
  /\ UNCHANGED <<progVars, unitVars, fileVars, cmdVars, loopVars, mapped_buffers,
                 fence_state, submissions, in_flight, waited, staging_data, image_data>>

(* ------------------------------------------------------------------ *)
(* main: recording the command stream (main.c 646-841).                 *)
(* ------------------------------------------------------------------ *)
\* a checked cgpu_cmd_* call at `here` that records `cmd`
RecordCall(here, cmd, next) ==
  /\ \E r \in Outcomes :
       /\ Call(here, r, next)
       /\ cmds' = Record(r, cmd)

BeginCommandBuffer ==
  /\ \E r \in Outcomes :
       /\ Call("begin_command_buffer", r, "reset_timestamps")
       /\ cmd_state' = IF r = "CGPU_OK" THEN "recording" ELSE cmd_state
  /\ UNCHANGED <<item, cmds, bound_pipeline, push_consts>>
  /\ UNCHANGED <<progVars, unitVars, fileVars, loopVars, gpuVars>>

CmdResetTimestamps ==
  /\ RecordCall("reset_timestamps", TimestampCmd("reset_timestamps"),
                "write_timestamp_start")
  /\ UNCHANGED <<item, cmd_state, bound_pipeline, push_consts>>
  /\ UNCHANGED <<progVars, unitVars, fileVars, loopVars, gpuVars>>

CmdWriteTimestampStart ==
  /\ RecordCall("write_timestamp_start", TimestampCmd("write_timestamp"),
                "copy_staging_to_input")
  /\ UNCHANGED <<item, cmd_state, bound_pipeline, push_consts>>
  /\ UNCHANGED <<progVars, unitVars, fileVars, loopVars, gpuVars>>

CmdCopyStagingToInput ==
  /\ RecordCall("copy_staging_to_input",
                CopyCmd("staging", "input", device_buf_size), "barrier_1")
  /\ UNCHANGED <<item, cmd_state, bound_pipeline, push_consts>>
  /\ UNCHANGED <<progVars, unitVars, fileVars, loopVars, gpuVars>>

CmdBarrier1 ==
  /\ RecordCall("barrier_1", BarrierCmd(buffer_memory_barrier_1), "while_ray_offset")
  /\ UNCHANGED <<item, cmd_state, bound_pipeline, push_consts>>
  /\ UNCHANGED <<progVars, unitVars, fileVars, loopVars, gpuVars>>

\* while (ray_offset < total_ray_count); the model stops after MaxBatches batches
WhileRayOffset ==
  /\ pc = "while_ray_offset"
  /\ IF ray_offset < total_ray_count
     THEN /\ Len(Generates) < MaxBatches
          /\ pc' = "bind_ray_gen"
     ELSE pc' = "write_timestamp_end"
  /\ UNCHANGED <<exit_status, item, calls, progVars, unitVars, fileVars, cmdVars, loopVars,
                 gpuVars>>

\* a checked cgpu_cmd_bind_pipeline
BindCall(here, pipeline, next) ==
  /\ \E r \in Outcomes :
       /\ Call(here, r, next)
       /\ bound_pipeline' = IF r = "CGPU_OK" THEN pipeline ELSE bound_pipeline

CmdBindRayGen ==
  /\ BindCall("bind_ray_gen", "ray_gen", "push_constants")
  /\ UNCHANGED <<item, cmd_state, cmds, push_consts>>
  /\ UNCHANGED <<progVars, unitVars, fileVars, loopVars, gpuVars>>

CmdPushConstants ==
  /\ \E r \in Outcomes :
       /\ Call("push_constants", r, "dispatch_ray_gen")
       /\ push_consts' = IF r = "CGPU_OK" THEN gen_push_consts ELSE push_consts
  /\ UNCHANGED <<item, cmd_state, cmds, bound_pipeline>>
  /\ UNCHANGED <<progVars, unitVars, fileVars, loopVars, gpuVars>>

\* the dispatch of the generation kernel and the start of the bounce loop
CmdDispatchRayGen ==
  /\ RecordCall("dispatch_ray_gen",
                DispatchCmd(U32((pool_size \div device_limits.subgroupSize) + 1), 1, 1),
                "for_bounce")
  /\ bounce' = 0
  /\ UNCHANGED <<item, cmd_state, bound_pipeline, push_consts, ray_offset>>
  /\ UNCHANGED <<progVars, unitVars, fileVars, gpuVars>>

\* for (...; bounce < (options.bounces + 1); ...) and, after the loop,
\* ray_offset += ray_pool_size
ForBounce ==
  /\ pc = "for_bounce"
  /\ IF bounce < U32(options.bounces + 1)
     THEN /\ pc' = "barrier_2"
          /\ ray_offset' = ray_offset
     ELSE /\ pc' = "while_ray_offset"
          /\ ray_offset' = U64(ray_offset + ray_pool_size)
  /\ UNCHANGED <<exit_status, item, calls, progVars, unitVars, fileVars, cmdVars, bounce,
                 gpuVars>>

CmdBarrier2 ==
  /\ RecordCall("barrier_2", BarrierCmd(buffer_memory_barrier_2), "bind_extend")
  /\ UNCHANGED <<item, cmd_state, bound_pipeline, push_consts>>
  /\ UNCHANGED <<progVars, unitVars, fileVars, loopVars, gpuVars>>

CmdBindExtend ==
  /\ BindCall("bind_extend", "extend", "dispatch_extend")
  /\ UNCHANGED <<item, cmd_state, cmds, push_consts>>
  /\ UNCHANGED <<progVars, unitVars, fileVars, loopVars, gpuVars>>

CmdDispatchExtend ==
  /\ RecordCall("dispatch_extend",
                DispatchCmd(device_limits.maxComputeWorkGroupSize0, 1, 1), "barrier_3")
  /\ UNCHANGED <<item, cmd_state, bound_pipeline, push_consts>>
  /\ UNCHANGED <<progVars, unitVars, fileVars, loopVars, gpuVars>>

CmdBarrier3 ==
  /\ RecordCall("barrier_3", BarrierCmd(buffer_memory_barrier_3), "bind_shade")
  /\ UNCHANGED <<item, cmd_state, bound_pipeline, push_consts>>
  /\ UNCHANGED <<progVars, unitVars, fileVars, loopVars, gpuVars>>

CmdBindShade ==
  /\ BindCall("bind_shade", "shade", "dispatch_shade")
  /\ UNCHANGED <<item, cmd_state, cmds, push_consts>>
  /\ UNCHANGED <<progVars, unitVars, fileVars, loopVars, gpuVars>>

\* the dispatch of the shading kernel and ++bounce
CmdDispatchShade ==
  /\ \E r \in Outcomes :
       /\ Call("dispatch_shade", r, "for_bounce")
       /\ cmds' = Record(r, DispatchCmd(device_limits.maxComputeWorkGroupSize0, 1, 1))
       /\ bounce' = IF r = "CGPU_OK" THEN U32(bounce + 1) ELSE bounce
  /\ UNCHANGED <<item, cmd_state, bound_pipeline, push_consts, ray_offset>>
  /\ UNCHANGED <<progVars, unitVars, fileVars, gpuVars>>

CmdWriteTimestampEnd ==
  /\ RecordCall("write_timestamp_end", TimestampCmd("write_timestamp"), "barrier_4")
  /\ UNCHANGED <<item, cmd_state, bound_pipeline, push_consts>>
  /\ UNCHANGED <<progVars, unitVars, fileVars, loopVars, gpuVars>>

CmdBarrier4 ==
  /\ RecordCall("barrier_4", BarrierCmd(buffer_memory_barrier_4),
                "copy_output_to_staging")
  /\ UNCHANGED <<item, cmd_state, bound_pipeline, push_consts>>
  /\ UNCHANGED <<progVars, unitVars, fileVars, loopVars, gpuVars>>

CmdCopyOutputToStaging ==
  /\ RecordCall("copy_output_to_staging",
                CopyCmd("output", "staging", output_buffer_size), "copy_timestamps")
  /\ UNCHANGED <<item, cmd_state, bound_pipeline, push_consts>>
  /\ UNCHANGED <<progVars, unitVars, fileVars, loopVars, gpuVars>>

CmdCopyTimestamps ==
  /\ RecordCall("copy_timestamps", TimestampCmd("copy_timestamps"),
                "end_command_buffer")
  /\ UNCHANGED <<item, cmd_state, bound_pipeline, push_consts>>
  /\ UNCHANGED <<progVars, unitVars, fileVars, loopVars, gpuVars>>

EndCommandBuffer ==
  /\ \E r \in Outcomes :
       /\ Call("end_command_buffer", r, "create_fence")
       /\ cmd_state' = IF r = "CGPU_OK" THEN "executable" ELSE cmd_state
  /\ UNCHANGED <<item, cmds, bound_pipeline, push_consts>>
  /\ UNCHANGED <<progVars, unitVars, fileVars, loopVars, gpuVars>>

(* ------------------------------------------------------------------ *)
(* main: submission and read-back (main.c 843-915).                     *)
(* ------------------------------------------------------------------ *)
\* cgpu_create_fence creates the fence signaled (cgpu.c 2293)
CreateFence ==
  /\ \E r \in Outcomes :
       /\ Call("create_fence", r, "reset_fence")
       /\ resources' = Created(r, "fence", "0")
       /\ fence_state' = IF r = "CGPU_OK" THEN "signaled" ELSE fence_state
  /\ UNCHANGED <<item, progVars, unitVars, fileVars, cmdVars, loopVars, mapped_buffers,
                 submissions, in_flight, waited, staging_data, image_data>>

\* faulty variant: the fence is left as cgpu_create_fence made it
ResetFence_mut ==
  /\ \E r \in Outcomes : Call("reset_fence", r, "submit_command_buffer")
  /\ UNCHANGED <<item, progVars, unitVars, fileVars, cmdVars, loopVars, gpuVars>>
\* vkResetFences puts the fence in the unsignaled state (cgpu.c 2342-2346)
ResetFence ==
  /\ \E r \in Outcomes :
       /\ Call("reset_fence", r, "submit_command_buffer")
       /\ fence_state' = IF r = "CGPU_OK" THEN "unsignaled" ELSE fence_state
  /\ UNCHANGED <<item, progVars, unitVars, fileVars, cmdVars, loopVars, resources,
                 mapped_buffers, submissions, in_flight, waited, staging_data,
                 image_data>>

SubmitCommandBuffer ==
  /\ \E r \in Outcomes :
       /\ Call("submit_command_buffer", r, "wait_for_fence")
       /\ in_flight' = IF r = "CGPU_OK" THEN TRUE ELSE in_flight
       /\ submissions' = IF r = "CGPU_OK" THEN submissions + 1 ELSE submissions
       /\ cmd_state' = IF r = "CGPU_OK" THEN "pending" ELSE cmd_state
  /\ UNCHANGED <<item, progVars, unitVars, fileVars, cmds, bound_pipeline, push_consts,
                 loopVars, resources, mapped_buffers, fence_state, waited,
                 staging_data, image_data>>

\* the device runs the submitted stream to its end and signals the fence
DeviceExecute ==
  /\ in_flight
  /\ in_flight' = FALSE
  /\ fence_state' = "signaled"
  /\ cmd_state' = "executable"
  /\ staging_data' =
       IF \E i \in 1 .. Len(cmds) :
            cmds[i].op = "copy" /\ cmds[i].copy.dst = "staging"
       THEN "image" ELSE staging_data
  /\ UNCHANGED <<pc, exit_status, item, calls, progVars, unitVars, fileVars, cmds,
                 bound_pipeline, push_consts, loopVars, resources, mapped_buffers,
                 submissions, waited, image_data>>

\* faulty variant: main goes on to the read-back without waiting for the fence
WaitForFence_mut ==
  /\ pc = "wait_for_fence"
  /\ pc' = "map_timestamps"
  /\ UNCHANGED <<exit_status, item, calls, progVars, unitVars, fileVars, cmdVars, loopVars,
                 gpuVars>>
\* vkWaitForFences blocks until the fence is signaled, or fails
WaitForFence ==
  /\ \E r \in Outcomes :
       /\ r = "CGPU_OK" => fence_state = "signaled"
       /\ Call("wait_for_fence", r, "map_timestamps")
       /\ waited' = IF r = "CGPU_OK" THEN TRUE ELSE waited
  /\ UNCHANGED <<item, progVars, unitVars, fileVars, cmdVars, loopVars, resources,
                 mapped_buffers, fence_state, submissions, in_flight, staging_data,
                 image_data>>

\* a checked cgpu_map_buffer
MapCall(here, buffer, next) ==
  /\ \E r \in Outcomes :
       /\ Call(here, r, next)
       /\ mapped_buffers' = IF r = "CGPU_OK" THEN mapped_buffers \cup {buffer}
                            ELSE mapped_buffers
\* a checked cgpu_unmap_buffer
UnmapCall(here, buffer, next) ==
  /\ \E r \in Outcomes :
       /\ Call(here, r, next)
       /\ mapped_buffers' = IF r = "CGPU_OK" THEN mapped_buffers \ {buffer}
                            ELSE mapped_buffers

MapTimestamps ==
  /\ MapCall("map_timestamps", "timestamp", "unmap_timestamps")
  /\ UNCHANGED <<item, progVars, unitVars, fileVars, cmdVars, loopVars, resources,
                 fence_state, submissions, in_flight, waited, staging_data, image_data>>

UnmapTimestamps ==
  /\ UnmapCall("unmap_timestamps", "timestamp", "map_staging_readback")
  /\ UNCHANGED <<item, progVars, unitVars, fileVars, cmdVars, loopVars, resources,
                 fence_state, submissions, in_flight, waited, staging_data, image_data>>

\* cgpu_map_buffer of the staging buffer and the memcpy into image_data
MapStagingReadback ==
  /\ MapCall("map_staging_readback", "staging", "unmap_staging_readback")
  /\ image_data' = IF pc' = "exit" THEN image_data ELSE staging_data
  /\ UNCHANGED <<item, progVars, unitVars, fileVars, cmdVars, loopVars, resources,
                 fence_state, submissions, in_flight, waited, staging_data>>

UnmapStagingReadback ==
  /\ UnmapCall("unmap_staging_readback", "staging", "save_img")
  /\ UNCHANGED <<item, progVars, unitVars, fileVars, cmdVars, loopVars, resources,
                 fence_state, submissions, in_flight, waited, staging_data, image_data>>

\* gatling_save_img: the encoder calls gatling_save_img_wfunc, which creates,
\* maps, writes, unmaps and closes the output file (main.c 63-115)
SaveImg ==
  /\ pc = "save_img"
  /\ \E outcome \in {"encode_failed", "create_failed", "map_failed", "written"} :
       /\ output_file' = CASE outcome = "written" -> "written"
                           [] outcome = "map_failed" -> "created"
                           [] OTHER -> output_file
       /\ IF outcome = "written"
          THEN pc' = "destroy_fence" /\ exit_status' = exit_status
          ELSE gatling_fail
  /\ UNCHANGED <<item, calls, progVars, unitVars, open_files, mapped_files, cmdVars,
                 loopVars, gpuVars>>

(* ------------------------------------------------------------------ *)
(* main: clean-up (main.c 917-953).                                     *)
(* ------------------------------------------------------------------ *)
DestroyFence ==
  /\ \E r \in Outcomes :
       /\ Call("destroy_fence", r, "destroy_command_buffer")
       /\ resources' = Destroyed(r, "fence", "0")
       /\ fence_state' = IF r = "CGPU_OK" THEN "none" ELSE fence_state
  /\ UNCHANGED <<item, progVars, unitVars, fileVars, cmdVars, loopVars, mapped_buffers,
                 submissions, in_flight, waited, staging_data, image_data>>

\* faulty variant: the command buffer is never destroyed
DestroyCommandBuffer_mut ==
  /\ pc = "destroy_command_buffer"
  /\ pc' = "destroy_pipeline"
  /\ item' = 1
  /\ UNCHANGED <<exit_status, calls, progVars, unitVars, fileVars, cmdVars, loopVars,
                 gpuVars>>
DestroyCommandBuffer ==
  /\ \E r \in Outcomes :
       /\ Call("destroy_command_buffer", r, "destroy_pipeline")
       /\ resources' = Destroyed(r, "command_buffer", "0")
  /\ item' = 1
  /\ UNCHANGED <<progVars, unitVars, fileVars, cmdVars, loopVars, mapped_buffers,
                 fence_state, submissions, in_flight, waited, staging_data, image_data>>

\* gatling_cgpu_warn: a failure is printed and the program goes on
gatling_cgpu_warn(result, next) ==
  /\ pc' = next
  /\ exit_status' = exit_status

\* gatling_destroy_pipeline, called for each of Kernels (main.c 178-193)
DestroyPipeline ==
  /\ pc = "destroy_pipeline"
  /\ \E rs \in Outcomes, rp \in Outcomes :
       /\ calls.nfailed + (IF rs # "CGPU_OK" THEN 1 ELSE 0)
            + (IF rp # "CGPU_OK" THEN 1 ELSE 0) <= MaxFailures
       /\ calls' = [ncalls |-> calls.ncalls + 2,
                    nfailed |-> calls.nfailed + (IF rs # "CGPU_OK" THEN 1 ELSE 0)
                                  + (IF rp # "CGPU_OK" THEN 1 ELSE 0),
                    failed_op |->
                      IF calls.failed_op = "none" /\ (rs # "CGPU_OK" \/ rp # "CGPU_OK")
                      THEN "destroy_pipeline" ELSE calls.failed_op,
                    fail_no |->
                      IF calls.fail_no # 0 THEN calls.fail_no
                      ELSE IF rs # "CGPU_OK" THEN calls.ncalls + 1
                      ELSE IF rp # "CGPU_OK" THEN calls.ncalls + 2
                      ELSE 0]
       /\ resources' =
            (resources \ (IF rs = "CGPU_OK" THEN {<<"shader", Kernels[item]>>} ELSE {}))
              \ (IF rp = "CGPU_OK" THEN {<<"pipeline", Kernels[item]>>} ELSE {})
       /\ gatling_cgpu_warn(rp, IF item = Len(Kernels) THEN "destroy_buffer"
                                ELSE "destroy_pipeline")
  /\ item' = IF item = Len(Kernels) THEN 1 ELSE item + 1
  /\ UNCHANGED <<progVars, unitVars, fileVars, cmdVars, loopVars, mapped_buffers,
                 fence_state, submissions, in_flight, waited, staging_data, image_data>>

\* the five cgpu_destroy_buffer calls, in the order of Buffers
DestroyBuffer ==
  /\ \E r \in Outcomes :
       /\ Call("destroy_buffer", r,
               IF item = Len(Buffers) THEN "destroy_device" ELSE "destroy_buffer")
       /\ resources' = Destroyed(r, "buffer", Buffers[item])
       /\ item' = IF r = "CGPU_OK" THEN item + 1 ELSE item
  /\ UNCHANGED <<progVars, unitVars, fileVars, cmdVars, loopVars, mapped_buffers,
                 fence_state, submissions, in_flight, waited, staging_data, image_data>>

DestroyDevice ==
  /\ \E r \in Outcomes :
       /\ Call("destroy_device", r, "cgpu_destroy")
       /\ resources' = Destroyed(r, "device", "0")
  /\ UNCHANGED <<item, progVars, unitVars, fileVars, cmdVars, loopVars, mapped_buffers,
                 fence_state, submissions, in_flight, waited, staging_data, image_data>>

\* cgpu_destroy and return EXIT_SUCCESS
CgpuDestroy ==
  /\ pc = "cgpu_destroy"
  /\ \E r \in Outcomes :
       /\ Issue("cgpu_destroy", r)
       /\ resources' = Destroyed(r, "instance", "cgpu")
       /\ pc' = "exit"
       /\ exit_status' = IF r # "CGPU_OK" THEN "EXIT_FAILURE" ELSE "EXIT_SUCCESS"
  /\ UNCHANGED <<item, progVars, unitVars, fileVars, cmdVars, loopVars, mapped_buffers,
                 fence_state, submissions, in_flight, waited, staging_data, image_data>>

Next ==
  \/ CgpuInitialize \/ GetDeviceCount \/ CreateDevice \/ GetPhysicalDeviceLimits
  \/ SceneFileOpen \/ SceneMmap \/ CreateBuffer \/ MapStagingUpload
  \/ UnmapStagingUpload \/ CreateCommandBuffer \/ SceneUnmapClose
  \/ ShaderFileOpen \/ ShaderMmap \/ CreateShader \/ CreatePipeline
  \/ BeginCommandBuffer \/ CmdResetTimestamps \/ CmdWriteTimestampStart
  \/ CmdCopyStagingToInput \/ CmdBarrier1 \/ WhileRayOffset
  \/ CmdBindRayGen \/ CmdPushConstants \/ CmdDispatchRayGen \/ ForBounce
  \/ CmdBarrier2 \/ CmdBindExtend \/ CmdDispatchExtend
  \/ CmdBarrier3 \/ CmdBindShade \/ CmdDispatchShade
  \/ CmdWriteTimestampEnd \/ CmdBarrier4 \/ CmdCopyOutputToStaging
  \/ CmdCopyTimestamps \/ EndCommandBuffer
  \/ CreateFence \/ ResetFence \/ SubmitCommandBuffer \/ DeviceExecute
  \/ WaitForFence \/ MapTimestamps \/ UnmapTimestamps
  \/ MapStagingReadback \/ UnmapStagingReadback \/ SaveImg
  \/ DestroyFence \/ DestroyCommandBuffer \/ DestroyPipeline \/ DestroyBuffer
  \/ DestroyDevice \/ CgpuDestroy

Spec == Init /\ [][Next]_vars

(* ------------------------------------------------------------------ *)
(* Properties.                                                          *)
(* ------------------------------------------------------------------ *)
LoopLabels ==
  {"while_ray_offset", "bind_ray_gen", "push_constants", "dispatch_ray_gen",
   "for_bounce", "barrier_2", "bind_extend", "dispatch_extend", "barrier_3",
   "bind_shade", "dispatch_shade"}
RecordLabels ==
  LoopLabels \cup
  {"reset_timestamps", "write_timestamp_start", "copy_staging_to_input", "barrier_1",
   "write_timestamp_end", "barrier_4", "copy_output_to_staging", "copy_timestamps",
   "end_command_buffer"}
\* the backend calls main issues before gatling_save_img
PreSaveOps ==
  RecordLabels \cup
  {"cgpu_initialize", "get_device_count", "create_device",
   "get_physical_device_limits", "create_buffer", "map_staging_upload",
   "unmap_staging_upload", "create_command_buffer", "create_shader",
   "create_pipeline", "begin_command_buffer", "create_fence", "reset_fence",
   "submit_command_buffer", "wait_for_fence", "map_timestamps", "unmap_timestamps",
   "map_staging_readback", "unmap_staging_readback"}

CeilDiv(a, b) == (a + b - 1) \div b
RECURSIVE SumLive(_)
SumLive(g) == IF g = <<>> THEN 0 ELSE Head(g).push.ray_pool_size + SumLive(Tail(g))
IsDispatch(i, kernel) == cmds[i].op = "dispatch" /\ cmds[i].pipeline = kernel
NoDispatchBetween(i, j) == \A k \in (i + 1) .. (j - 1) : cmds[k].op # "dispatch"
\* the region bound at `binding` in every pipeline
BoundRegion(binding) == shader_resource_buffers[binding + 1]
\* the cgpu_buffer_memory_barrier that orders src -> dst accesses on the region
\* bound at `binding`
RegionBarrier(binding, src, dst) ==
  LET region == BoundRegion(binding)
  IN  [src_access_flags |-> src, dst_access_flags |-> dst, buffer |-> region[2],
       offset |-> region[3], size |-> region[4]]
\* command j is a barrier that holds `barrier`
BarrierAt(j, barrier) == cmds[j].op = "barrier" /\ barrier \in cmds[j].barriers

C2_BouncePairs ==
  (pc = "while_ray_offset" /\ Len(Dispatches) > 0) =>
    LET d == Dispatches
        gen == CHOOSE i \in 1 .. Len(d) :
                 /\ d[i].pipeline = "ray_gen"
                 /\ \A k \in (i + 1) .. Len(d) : d[k].pipeline # "ray_gen"
    IN  /\ Len(d) - gen = 2 * (options.bounces + 1)
        /\ \A k \in (gen + 1) .. Len(d) :
             d[k].pipeline = IF (k - gen) % 2 = 1 THEN "extend" ELSE "shade"

\* C3: every Extend dispatch is preceded, after the previous dispatch, by a
\* barrier on the path-segment region (shader-write to shader-read), and every
\* Shade dispatch is preceded, after the Extend dispatch of its bounce, by a
\* barrier on the hit-info region (shader-write to shader-read) and on the whole
\* output buffer (shader-write to shader-read|shader-write).  In the stream the
\* barrier is the command directly before the dispatch, and the Extend dispatch
\* the command directly before that barrier.
C3_BarriersBeforeExtendAndShade ==
  LET path_segment == RegionBarrier(1, {"SHADER_WRITE"}, {"SHADER_READ"})
      hit_info == RegionBarrier(6, {"SHADER_WRITE"}, {"SHADER_READ"})
      output == RegionBarrier(0, {"SHADER_WRITE"}, {"SHADER_READ", "SHADER_WRITE"})
  IN  \A i \in 1 .. Len(cmds) :
        /\ IsDispatch(i, "extend") =>
             /\ i > 1
             /\ BarrierAt(i - 1, path_segment)
        /\ IsDispatch(i, "shade") =>
             /\ i > 2
             /\ IsDispatch(i - 2, "extend")
             /\ BarrierAt(i - 1, hit_info)
             /\ BarrierAt(i - 1, output)
\* two bounces of one batch recorded
C3_Witness ==
  /\ Len(Dispatches) >= 5
  /\ Dispatches[4].pipeline = "extend"
  /\ Dispatches[5].pipeline = "shade"

\* C4: between any two consecutive dispatches (all kernels are bound to the same
\* seven regions) a barrier is recorded, the last Shade of a batch and the
\* Generate of the next batch included.
C4_BarrierBetweenDispatches ==
  \A i \in 1 .. Len(cmds), j \in 1 .. Len(cmds) :
    (/\ i < j
     /\ cmds[i].op = "dispatch"
     /\ cmds[j].op = "dispatch"
     /\ NoDispatchBetween(i, j))
    => \E k \in (i + 1) .. (j - 1) : cmds[k].op = "barrier"

\* C5: for a batch at ray offset o, with width*height*spp > 0, Generate receives
\* pixelIndexOffset = o div spp, sampleIndexOffset = o mod spp and
\* liveCount = min(totalRays - o, poolCapacity) as exact values, with
\* sampleIndexOffset < spp and pixelIndexOffset < width*height.
C5_PushConstantsExact ==
  LET T == options.image_width * options.image_height * options.spp
      g == Generates
  IN  T > 0 =>
        \A i \in 1 .. Len(g) :
          /\ g[i].push.pixel_index_offset = g[i].at \div options.spp
          /\ g[i].push.sample_index_offset = g[i].at % options.spp
          /\ g[i].push.ray_pool_size = Min(T - g[i].at, options.pool_ray_count)
          /\ g[i].push.sample_index_offset < options.spp
          /\ g[i].push.pixel_index_offset < options.image_width * options.image_height

\* C6: the ray offset strictly increases on every iteration of the batch loop
\* (so the loop reaches offset >= totalRays after finitely many iterations).
C6_OffsetStrictlyIncreases ==
  [][(pc = "for_bounce" /\ pc' = "while_ray_offset") => ray_offset' > ray_offset]_vars

\* C7: every Extend and Shade dispatch has X = the device's reported
\* maxComputeWorkGroupCount and Y = Z = 1.
C7_DispatchWidthIsGroupCount ==
  \A i \in 1 .. Len(cmds) :
    (IsDispatch(i, "extend") \/ IsDispatch(i, "shade")) =>
      cmds[i].groups = <<device_limits.maxComputeWorkGroupCount0, 1, 1>>

\* C8: all batches are recorded into one command stream between begin and end,
\* the stream is submitted once, nothing is recorded or submitted while a
\* submission is in flight, and the host maps and reads the staging data only
\* after the fence wait for that submission has returned.
C8_SubmitOnceWaitBeforeRead ==
  /\ submissions <= 1
  /\ pc \in RecordLabels => (cmd_state = "recording" /\ submissions = 0)
  /\ Len(cmds) > 0 => cmd_state # "initial"
  /\ in_flight => pc \in {"wait_for_fence", "exit"}
  /\ (submissions > 0 /\ "staging" \in mapped_buffers) => (waited /\ ~in_flight)
  /\ image_data # "none" => (waited /\ ~in_flight /\ image_data = "image")
  /\ pc \in {"map_timestamps", "map_staging_readback", "save_img"} =>
       (submissions = 1 /\ waited)
\* the image of a render of two batches has been read back
C8_Witness ==
  /\ image_data = "image"
  /\ Len(Generates) = 2
  /\ pc = "unmap_staging_readback"

C10_FailureAborts ==
  calls.failed_op \in PreSaveOps =>
    /\ pc = "exit"
    /\ exit_status = "EXIT_FAILURE"
    /\ calls.ncalls = calls.fail_no
    /\ output_file = "absent"
\* a Shade dispatch of the second batch failed
C10_Witness ==
  /\ calls.failed_op = "dispatch_shade"
  /\ Len(Generates) = 2
  /\ pc = "exit"

(* ------------------------------------------------------------------ *)
(* Fatal path and clean-up (main.c 42-61, 917-953).                     *)
(* ------------------------------------------------------------------ *)
CleanupOps ==
  {"destroy_fence", "destroy_command_buffer", "destroy_pipeline",
   "destroy_buffer", "destroy_device", "cgpu_destroy"}

\* C11: when a backend call before the clean-up fails, the program attempts to
\* destroy each resource it has created before it terminates: at the exit, at
\* least one backend call per resource still alive was issued after the failing
\* call.
C11_FatalPathDestroysResources ==
  (pc = "exit" /\ calls.failed_op \in PreSaveOps) =>
    calls.ncalls - calls.fail_no >= Cardinality(resources)

\* C12: a failure of a clean-up operation is only logged: the program is not
\* aborted by it and its exit status stays success.
C12_CleanupFailureOnlyLogged ==
  (pc = "exit" /\ calls.failed_op \in CleanupOps) => exit_status = "EXIT_SUCCESS"

(* ------------------------------------------------------------------ *)
(* gatling_align_buffer on its own (main.c 338-350): a layout is packed *)
(* by successive calls on one running total, as main does at 425-443.   *)
(* ------------------------------------------------------------------ *)
\* a layout has at most MaxRequests entries
MaxRequests == 3
\* the alignments a caller may pass; 0 is what no device reports
Alignments == {0, 1, 16, 256}
\* the sizes a caller may pass, among them an empty buffer and the largest value
BufferSizes == {0, 50, 100, 300, UINT64_MOD - 1}
RequestLists == UNION {[1 .. n -> BufferSizes] : n \in 1 .. MaxRequests}

PackerInit ==
  /\ MainStart(CHOOSE opts \in ProgramOptions : TRUE)
  /\ alignment \in Alignments
  /\ requests \in RequestLists
  /\ offsets = <<>>
  /\ running_total = 0
  /\ layout_status = "packing"
  /\ StoresIdle
  /\ ExtIdle

\* the request the next call is made for
NextRequest == requests[Len(offsets) + 1]

\* one gatling_align_buffer call with a non-zero alignment
AlignBuffer ==
  /\ layout_status = "packing"
  /\ Len(offsets) < Len(requests)
  /\ alignment # 0
  /\ LET r == gatling_align_buffer(alignment, NextRequest, running_total)
     IN  /\ offsets' = Append(offsets, r[1])
         /\ running_total' = r[2]
  /\ UNCHANGED <<alignment, requests, layout_status, mainVars, storeVars, extVars>>

\* one gatling_align_buffer call with alignment 0: the division by zero at
\* main.c 344-346 is undefined; the call traps, or it returns some offset
AlignBufferByZero ==
  /\ layout_status = "packing"
  /\ Len(offsets) < Len(requests)
  /\ alignment = 0
  /\ \/ /\ layout_status' = "trapped"
        /\ UNCHANGED <<offsets, running_total>>
     \/ \E offset \in {0, UINT64_MOD - 1} :
          /\ offsets' = Append(offsets, offset)
          /\ running_total' = U64(offset + NextRequest)
          /\ UNCHANGED layout_status
  /\ UNCHANGED <<alignment, requests, mainVars, storeVars, extVars>>

PackerNext == AlignBuffer \/ AlignBufferByZero

SpecPacker == PackerInit /\ [][PackerNext]_vars

RECURSIVE SumSizes(_, _)
\* the sum of the first n sizes, not reduced to any width
SumSizes(sizes, n) == IF n = 0 THEN 0 ELSE sizes[n] + SumSizes(sizes, n - 1)

\* C13: for every list of sizes and every alignment A >= 1, each offset returned
\* by successive gatling_align_buffer calls is a multiple of A and is at least
\* the sum of the sizes of all earlier requests.
C13_OffsetsAlignedPastEarlierSizes ==
  alignment >= 1 =>
    \A i \in 1 .. Len(offsets) :
      /\ offsets[i] % alignment = 0
      /\ offsets[i] >= SumSizes(requests, i - 1)

\* every offset main binds in the three pipelines is a multiple of
\* minStorageBufferOffsetAlignment (the test of cgpu.c 1911-1913 passes)
BindingOffsetsAligned ==
  \A i \in 1 .. Len(shader_resource_buffers) :
    shader_resource_buffers[i][3] % offset_align = 0

\* C14 as stated: alignment 256 and sizes 100, 300, 50 give the offsets
\* 0, 256, 512 and the total 578.
C14_StatedExample ==
  (alignment = 256 /\ requests = <<100, 300, 50>> /\ Len(offsets) = 3) =>
    (offsets = <<0, 256, 512>> /\ running_total = 578)
\* C14: alignment 256 and sizes 100, 300, 50, packed from an empty layout, give
\* the offsets 0, 256, 768 and the total 818.
C14_Example ==
  (alignment = 256 /\ requests = <<100, 300, 50>>) =>
    /\ offsets = SubSeq(<<0, 256, 768>>, 1, Len(offsets))
    /\ Len(offsets) = 3 => running_total = 818
\* the three requests of the example have been packed
C14_Witness ==
  /\ alignment = 256
  /\ requests = <<100, 300, 50>>
  /\ Len(offsets) = 3

\* C15: entries are packed in declaration order with minimal padding: the first
\* offset is 0, each later offset is the least multiple of A that is at least the
\* previous offset plus the previous size, the regions are pairwise disjoint, and
\* the total is the last offset plus the last size.
C15_ContiguousMinimalPadding ==
  alignment >= 1 =>
    /\ Len(offsets) >= 1 => offsets[1] = 0
    /\ \A i \in 2 .. Len(offsets) :
         LET end == offsets[i - 1] + requests[i - 1]
         IN  /\ offsets[i] % alignment = 0
             /\ offsets[i] >= end
             /\ offsets[i] - end < alignment
    /\ \A i, j \in 1 .. Len(offsets) :
         i < j => offsets[i] + requests[i] <= offsets[j]
    /\ Len(offsets) >= 1 =>
         running_total = offsets[Len(offsets)] + requests[Len(offsets)]

\* C16: a call with alignment 0 or with size 0 is rejected with a layout error:
\* no offset is returned and the running total is left unchanged.
C16_InvalidRequestRejected ==
  [][(/\ layout_status = "packing"
      /\ Len(offsets) < Len(requests)
      /\ (alignment = 0 \/ NextRequest = 0))
     => (/\ offsets' = offsets
         /\ running_total' = running_total
         /\ layout_status' = "layout_error")]_vars

\* the size of two sub-buffers of n records each (48 bytes a record, 16 bytes of
\* header), the second one moved up to a multiple of A; not reduced to any width
PairSize(n, A) ==
  LET sub == n * 48 + 16
  IN  CeilDiv(sub, A) * A + sub

\* C17: the size of the intermediate allocation depends only on
\* min(totalRays, poolCapacity) and the alignment A: for every totalRays >=
\* poolCapacity it is the same value, at most 96 * poolCapacity + 32 + (A - 1),
\* and each of the two sub-buffers has room for poolCapacity records of 48 bytes
\* and a 16-byte header.
C17_IntermediateSizeBoundedByPool ==
  LET P == options.pool_ray_count
      A == offset_align
  IN  /\ intermediate_buf_size = PairSize(Min(total_ray_count, P), A)
      /\ total_ray_count >= P =>
           /\ intermediate_buf_size = PairSize(P, A)
           /\ intermediate_buf_size <= 96 * P + 32 + (A - 1)
           /\ path_segment_buf_size >= P * 48 + 16
           /\ hit_info_buf_offset >= path_segment_buf_offset + path_segment_buf_size
           /\ intermediate_buf_size - hit_info_buf_offset >= P * 48 + 16
\* the intermediate buffer was created for a workload larger than the pool
C17_Witness ==
  /\ <<"buffer", "intermediate">> \in resources
  /\ total_ray_count > options.pool_ray_count
  /\ options.pool_ray_count > 0

(* ------------------------------------------------------------------ *)
(* Handle stores: resource_store, declared in resource_store.h and used *)
(* by cgpu.c 58-90 and 950-969, and the cgpu functions of the device    *)
(* and fence stores that create, resolve and free handles.              *)
(* ------------------------------------------------------------------ *)
\* a slot's generation counter has GenBits bits
GenBits == 1
GenMod == 2 ^ GenBits
\* at most MaxFrees slots are freed in one run
MaxFrees == 2
\* a store holds at most its initial capacity plus MaxExtra live handles
MaxExtra == 1

StoreKinds == {"device", "fence"}
idevice_store_capacity == 1
ifence_store_capacity == 8
Capacity == [device |-> idevice_store_capacity, fence |-> ifence_store_capacity]

ZeroSlot == [generation |-> 0, occupied |-> FALSE, data |-> <<>>, frees |-> 0]
\* the value no resource_store_create_handle call returns on success
InvalidHandle == [index |-> -1, generation |-> 0]

\* resource_store_create: `capacity` free slots
resource_store_create(capacity) ==
  [slots |-> [i \in 1 .. capacity |-> ZeroSlot],
   free_list |-> [i \in 1 .. capacity |-> i - 1]]

\* resource_store_get: the handle resolves
resource_store_get(store, handle) ==
  /\ handle.index >= 0
  /\ handle.index < Len(store.slots)
  /\ store.slots[handle.index + 1].occupied
  /\ store.slots[handle.index + 1].generation = handle.generation

\* faulty variant: the old slots are not copied into the larger array
resource_store_grow_mut(store) ==
  LET n == Len(store.slots)
  IN  [slots |-> [i \in 1 .. 2 * n |-> ZeroSlot],
       free_list |-> [i \in 1 .. n |-> n + i - 1]]
\* the backing array is doubled; the new slots join the free-list
resource_store_grow(store) ==
  LET n == Len(store.slots)
  IN  [slots |-> store.slots \o [i \in 1 .. n |-> ZeroSlot],
       free_list |-> store.free_list \o [i \in 1 .. n |-> n + i - 1]]

\* faulty variant: the index stays on the free-list
resource_store_create_handle_mut(store, grow_ok) ==
  IF store.free_list = <<>> /\ ~grow_ok
  THEN <<InvalidHandle, store>>
  ELSE LET s == IF store.free_list = <<>> THEN resource_store_grow(store) ELSE store
           index == Head(s.free_list)
       IN  <<[index |-> index, generation |-> s.slots[index + 1].generation],
             [slots |-> [s.slots EXCEPT ![index + 1].occupied = TRUE,
                                        ![index + 1].data = <<>>],
              free_list |-> s.free_list]>>
\* resource_store_create_handle: <<handle, store afterwards>>; when the
\* free-list is empty the store grows, unless the allocation fails
resource_store_create_handle(store, grow_ok) ==
  IF store.free_list = <<>> /\ ~grow_ok
  THEN <<InvalidHandle, store>>
  ELSE LET s == IF store.free_list = <<>> THEN resource_store_grow(store) ELSE store
           index == Head(s.free_list)
       IN  <<[index |-> index, generation |-> s.slots[index + 1].generation],
             [slots |-> [s.slots EXCEPT ![index + 1].occupied = TRUE,
                                        ![index + 1].data = <<>>],
              free_list |-> Tail(s.free_list)]>>

\* faulty variant: the generation of the freed slot is left as it is
resource_store_free_handle_mut(store, handle) ==
  IF ~resource_store_get(store, handle)
  THEN store
  ELSE [slots |-> [store.slots EXCEPT
                     ![handle.index + 1].occupied = FALSE,
                     ![handle.index + 1].frees = @ + 1],
        free_list |-> <<handle.index>> \o store.free_list]
\* resource_store_free_handle: the store afterwards
resource_store_free_handle(store, handle) ==
  IF ~resource_store_get(store, handle)
  THEN store
  ELSE [slots |-> [store.slots EXCEPT
                     ![handle.index + 1].occupied = FALSE,
                     ![handle.index + 1].generation = (@ + 1) % GenMod,
                     ![handle.index + 1].frees = @ + 1],
        free_list |-> <<handle.index>> \o store.free_list]

\* the internal structure a cgpu_create_* function fills in for a handle
ResourceOf(kind, handle) == <<kind, handle.index, handle.generation>>
SlotOf(kind, handle) == stores[kind].slots[handle.index + 1]
\* faulty variant: the result of resource_store_get is ignored
cgpu_resolve_mut(kind, handle) == TRUE
\* cgpu_resolve_device, cgpu_resolve_fence
cgpu_resolve(kind, handle) == resource_store_get(stores[kind], handle)

\* the handles of a store that callers hold
Known(kind) == {p[2] : p \in {q \in live \cup freed : q[1] = kind}}
LiveCount(kind) == Cardinality({p \in live : p[1] = kind})
\* a handle that was freed and whose slot's generation has not wrapped around
Stale(kind, handle) ==
  /\ <<kind, handle>> \in freed
  /\ SlotOf(kind, handle).frees < GenMod

Returned(result, stale) ==
  last_call' = [result |-> result, stale |-> stale]
\* whether the Vulkan object can be created, and whether a store that has to
\* grow can allocate the larger array
CreateOutcomes == IF frees_done < MaxFrees THEN BOOLEAN ELSE {TRUE}
GrowOutcomes(kind) == IF stores[kind].free_list = <<>> THEN BOOLEAN ELSE {TRUE}

StoreInit ==
  /\ MainStart(CHOOSE opts \in ProgramOptions : TRUE)
  /\ LayoutIdle
  /\ ExtIdle
  /\ stores = [kind \in StoreKinds |-> resource_store_create(Capacity[kind])]
  /\ live = {}
  /\ nlive = 0
  /\ freed = {}
  /\ frees_done = 0
  /\ last_call = [result |-> "none", stale |-> FALSE]

\* a cgpu_create_* function once the handles it is given have resolved
CreateIn(kind, stale, grow_ok, vk_ok) ==
  LET r == resource_store_create_handle(stores[kind], grow_ok)
      handle == r[1]
  IN  IF ~resource_store_get(r[2], handle)
      THEN /\ Returned("CGPU_FAIL_INVALID_HANDLE", stale)
           /\ UNCHANGED <<stores, live, nlive, freed, frees_done>>
      ELSE IF ~vk_ok
      THEN /\ stores' = [stores EXCEPT ![kind] = resource_store_free_handle(r[2], handle)]
           /\ freed' = freed \cup {<<kind, handle>>}
           /\ frees_done' = frees_done + 1
           /\ Returned("CGPU_FAIL", stale)
           /\ UNCHANGED <<live, nlive>>
      ELSE /\ stores' = [stores EXCEPT ![kind] =
                           [r[2] EXCEPT !.slots[handle.index + 1].data =
                                          ResourceOf(kind, handle)]]
           /\ live' = live \cup {<<kind, handle>>}
           /\ nlive' = nlive + 1
           /\ Returned("CGPU_OK", stale)
           /\ UNCHANGED <<freed, frees_done>>

\* a cgpu_destroy_* function once the other handles it is given have resolved
DestroyIn(kind, handle, stale) ==
  IF ~cgpu_resolve(kind, handle)
  THEN /\ Returned("CGPU_FAIL_INVALID_HANDLE", stale)
       /\ UNCHANGED <<stores, live, nlive, freed, frees_done>>
  ELSE /\ stores' = [stores EXCEPT ![kind] = resource_store_free_handle(@, handle)]
       /\ live' = live \ {<<kind, handle>>}
       /\ nlive' = nlive - 1
       /\ freed' = freed \cup {<<kind, handle>>}
       /\ frees_done' = frees_done + 1
       /\ Returned("CGPU_OK", stale)

cgpu_create_device ==
  /\ LiveCount("device") < Capacity.device + MaxExtra
  /\ \E grow_ok \in GrowOutcomes("device"), vk_ok \in CreateOutcomes :
       CreateIn("device", FALSE, grow_ok, vk_ok)
  /\ UNCHANGED <<mainVars, packVars, extVars>>

cgpu_destroy_device ==
  /\ frees_done < MaxFrees
  /\ \E device \in Known("device") :
       DestroyIn("device", device, Stale("device", device))
  /\ UNCHANGED <<mainVars, packVars, extVars>>

cgpu_get_physical_device_limits ==
  /\ \E device \in Known("device") :
       /\ Returned(IF cgpu_resolve("device", device)
                   THEN "CGPU_OK" ELSE "CGPU_FAIL_INVALID_HANDLE",
                   Stale("device", device))
  /\ UNCHANGED <<stores, live, nlive, freed, frees_done, mainVars, packVars, extVars>>

cgpu_create_fence ==
  /\ LiveCount("fence") < Capacity.fence + MaxExtra
  /\ \E device \in Known("device") :
       IF ~cgpu_resolve("device", device)
       THEN /\ Returned("CGPU_FAIL_INVALID_HANDLE", Stale("device", device))
            /\ UNCHANGED <<stores, live, nlive, freed, frees_done>>
       ELSE \E grow_ok \in GrowOutcomes("fence"), vk_ok \in CreateOutcomes :
              CreateIn("fence", Stale("device", device), grow_ok, vk_ok)
  /\ UNCHANGED <<mainVars, packVars, extVars>>

cgpu_destroy_fence ==
  /\ frees_done < MaxFrees
  /\ \E device \in Known("device") :
       IF ~cgpu_resolve("device", device)
       THEN /\ Returned("CGPU_FAIL_INVALID_HANDLE", Stale("device", device))
            /\ UNCHANGED <<stores, live, nlive, freed, frees_done>>
       ELSE \E fence \in Known("fence") :
              DestroyIn("fence", fence,
                        Stale("device", device) \/ Stale("fence", fence))
  /\ UNCHANGED <<mainVars, packVars, extVars>>

cgpu_reset_fence ==
  /\ \E device \in Known("device") :
       IF ~cgpu_resolve("device", device)
       THEN Returned("CGPU_FAIL_INVALID_HANDLE", Stale("device", device))
       ELSE \E fence \in Known("fence") :
              Returned(IF cgpu_resolve("fence", fence)
                       THEN "CGPU_OK" ELSE "CGPU_FAIL_INVALID_HANDLE",
                       Stale("device", device) \/ Stale("fence", fence))
  /\ UNCHANGED <<stores, live, nlive, freed, frees_done, mainVars, packVars, extVars>>

StoreNext ==
  \/ cgpu_create_device \/ cgpu_destroy_device \/ cgpu_get_physical_device_limits
  \/ cgpu_create_fence \/ cgpu_destroy_fence \/ cgpu_reset_fence

SpecStore == StoreInit /\ [][StoreNext]_vars

\* C18 as stated: once a handle has been freed it never resolves again, also
\* after its slot has been reused.
C18_FreedHandleNeverResolves ==
  \A p \in freed : ~cgpu_resolve(p[1], p[2])
\* C18: a freed handle does not resolve again, also after its slot has been
\* reused, as long as the generation counter of its slot has not wrapped around,
\* and every cgpu function given such a handle returns CGPU_FAIL_INVALID_HANDLE.
C18_FreedHandleInvalidUntilWrap ==
  /\ \A p \in freed : Stale(p[1], p[2]) => ~cgpu_resolve(p[1], p[2])
  /\ last_call.stale => last_call.result = "CGPU_FAIL_INVALID_HANDLE"
\* a cgpu function was given a freed handle whose slot is in use again
C18_Witness ==
  /\ last_call.stale
  /\ \E p \in freed :
       /\ Stale(p[1], p[2])
       /\ SlotOf(p[1], p[2]).occupied
       /\ SlotOf(p[1], p[2]).generation # p[2].generation

\* C19: no two handles that are live at the same time resolve to the same slot:
\* every successful create call returned a handle that was not live already, and
\* the live handles of one store resolve and have distinct slot indices.
C19_LiveHandlesDistinctSlots ==
  /\ Cardinality(live) = nlive
  /\ \A p, q \in live :
       /\ cgpu_resolve(p[1], p[2])
       /\ (p # q /\ p[1] = q[1]) => p[2].index # q[2].index
\* two fences are live, one of them in a slot that was freed before
C19_Witness ==
  /\ LiveCount("fence") >= 2
  /\ \E p \in live : p[1] = "fence" /\ p[2].generation > 0

\* C20: when a store has grown beyond the capacity it was created with (1 for
\* the device store, 8 for the fence store), the handles issued before the
\* growth still resolve to slots with the contents written for them, and so
\* does the handle whose creation made the store grow.
C20_GrowthKeepsHandles ==
  \A kind \in StoreKinds :
    Len(stores[kind].slots) > Capacity[kind] =>
      \A p \in live :
        p[1] = kind =>
          /\ cgpu_resolve(kind, p[2])
          /\ SlotOf(kind, p[2]).data = ResourceOf(kind, p[2])
\* both stores have grown and hold more live handles than their first capacity
C20_Witness ==
  /\ LiveCount("device") > Capacity.device
  /\ LiveCount("fence") > Capacity.fence
  /\ <<"fence", [index |-> Capacity.fence, generation |-> 0]>> \in live
  /\ last_call.result = "CGPU_OK"

\* --------------------------------------------------------------------------
\* C22: a handle issued by one store never resolves against a different
\* store: the handle value of a live resource of one kind, resolved in the
\* store of any other kind, is not found
C22_CrossStoreNeverResolves ==
  \A p \in live :
    \A kind \in StoreKinds \ {p[1]} : ~cgpu_resolve(kind, p[2])

\* --------------------------------------------------------------------------
\* C27: the render's fence is unsignaled when the command buffer is
\* submitted (main resets it between cgpu_create_fence and the submit), so
\* cgpu_wait_for_fence returns CGPU_OK only after the device has signaled the
\* completion of that submission
C27_FenceUnsignaledAtSubmit ==
  /\ pc = "submit_command_buffer" => fence_state = "unsignaled"
  /\ in_flight => fence_state = "unsignaled"
  /\ waited => (submissions = 1 /\ ~in_flight)

C27_Witness ==
  /\ pc = "wait_for_fence"
  /\ in_flight
  /\ fence_state = "unsignaled"

\* --------------------------------------------------------------------------
\* the backend resources main has created when the clean-up begins
AllResources ==
  {<<"instance", "cgpu">>, <<"device", "0">>, <<"command_buffer", "0">>,
   <<"fence", "0">>}
    \cup {<<"buffer", Buffers[i]>> : i \in 1 .. Len(Buffers)}
    \cup {<<"shader", Kernels[i]>> : i \in 1 .. Len(Kernels)}
    \cup {<<"pipeline", Kernels[i]>> : i \in 1 .. Len(Kernels)}

\* the resources not yet destroyed when the clean-up stands at `here`
Remaining(here) ==
  CASE here = "destroy_fence" -> AllResources
    [] here = "destroy_command_buffer" -> AllResources \ {<<"fence", "0">>}
    [] here = "destroy_pipeline" ->
         (AllResources \ {<<"fence", "0">>, <<"command_buffer", "0">>})
           \ ({<<"shader", Kernels[i]>> : i \in 1 .. item - 1}
                \cup {<<"pipeline", Kernels[i]>> : i \in 1 .. item - 1})
    [] here = "destroy_buffer" ->
         {<<"instance", "cgpu">>, <<"device", "0">>}
           \cup {<<"buffer", Buffers[i]>> : i \in item .. Len(Buffers)}
    [] here = "destroy_device" -> {<<"instance", "cgpu">>, <<"device", "0">>}
    [] here = "cgpu_destroy" -> {<<"instance", "cgpu">>}
    [] OTHER -> {}

\* C28: on the success path of main (no backend call failed) every created
\* resource is destroyed exactly once and only after the fence wait has
\* returned, in the order fence, command buffer, shaders and pipelines,
\* buffers, device, with the device after everything it owns and cgpu_destroy
\* last; at the exit nothing is left alive
C28_SuccessPathDestroysAllOnce ==
  calls.nfailed = 0 =>
    /\ pc \in CleanupOps =>
         (waited /\ ~in_flight /\ resources = Remaining(pc))
    /\ <<"device", "0">> \in resources \/ resources \subseteq {<<"instance", "cgpu">>}
         \/ pc \in {"cgpu_initialize", "get_device_count", "create_device"}
    /\ exit_status = "EXIT_SUCCESS" => (pc = "exit" /\ resources = {})

C28_Witness ==
  /\ exit_status = "EXIT_SUCCESS"
  /\ calls.nfailed = 0
  /\ resources = {}
  /\ waited

MAX_MAPPED_MEM_RANGES == 16
\* the gatling_munmap calls on recorded addresses that are explored
MaxUnmaps == 1
NULL == 0
MAP_FAILED == -1
\* the addresses mmap hands out, and the byte counts callers ask for
Addresses == 1 .. MAX_MAPPED_MEM_RANGES + MaxUnmaps + 1
ByteCounts == {0, 1}
\* an address mmap never returns here: there are more addresses than mappings
UnusedAddress == MAX_MAPPED_MEM_RANGES + MaxUnmaps + 1

Recorded(ranges) == {ranges[i].addr : i \in 1 .. Len(ranges)} \ {NULL}

\* the first entry whose addr equals `addr`, 0 when the loop finds none
FirstEntry(ranges, addr) ==
  IF \E i \in 1 .. Len(ranges) : ranges[i].addr = addr
  THEN CHOOSE i \in 1 .. Len(ranges) :
         /\ ranges[i].addr = addr
         /\ \A j \in 1 .. i - 1 : ranges[j].addr # addr
  ELSE 0

\* gatling_mmap: the result and the table after the call; mapped_addr is what
\* mmap returns when the call gets as far as calling it
gatling_mmap(ranges, byte_count, mapped_addr) ==
  LET range == FirstEntry(ranges, NULL)
  IN  IF byte_count = 0 THEN <<NULL, ranges>>
      ELSE IF range = 0 THEN <<NULL, ranges>>
      ELSE IF mapped_addr = MAP_FAILED THEN <<NULL, ranges>>
      ELSE <<mapped_addr,
             [ranges EXCEPT ![range] = [addr |-> mapped_addr,
                                        byte_count |-> byte_count]]>>

\* gatling_munmap: the result and the table after the call; munmap_ok is
\* whether munmap(addr, range->byte_count) returns 0
gatling_munmap(ranges, addr, munmap_ok) ==
  LET range == FirstEntry(ranges, addr)
  IN  IF range = 0 THEN <<FALSE, ranges>>
      ELSE <<munmap_ok, [ranges EXCEPT ![range].addr = NULL]>>

\* what munmap(addr, len) may return: a length of 0 is EINVAL; unmapping a
\* range that mmap did not establish is unspecified
MunmapOutcomes(addr, len) == IF len = 0 THEN {FALSE} ELSE BOOLEAN

\* gatling_file_open: the table is cleared (mmap.c 269)
TableInit ==
  /\ mapped_ranges = [i \in 1 .. MAX_MAPPED_MEM_RANGES |->
                        [addr |-> NULL, byte_count |-> 0]]
  /\ address_space = {}
  /\ file_call = [op |-> "none"]
  /\ unmaps = 0
  /\ MainStart(CHOOSE opts \in ProgramOptions : TRUE)
  /\ LayoutIdle
  /\ StoresIdle
  /\ ArgsIdle
  /\ CallsIdle

GatlingMmap ==
  /\ \E byte_count \in ByteCounts, os_ok \in BOOLEAN :
       LET called == byte_count # 0 /\ FirstEntry(mapped_ranges, NULL) # 0
           free == Addresses \ address_space
           mapped_addr == IF os_ok /\ free # {}
                          THEN CHOOSE a \in free : \A b \in free : a <= b
                          ELSE MAP_FAILED
           r == gatling_mmap(mapped_ranges, byte_count, mapped_addr)
       IN  /\ mapped_ranges' = r[2]
           /\ address_space' = IF called /\ mapped_addr # MAP_FAILED
                               THEN address_space \cup {mapped_addr}
                               ELSE address_space
           /\ file_call' = [op |-> "gatling_mmap", byte_count |-> byte_count,
                            mapped |-> called /\ mapped_addr # MAP_FAILED,
                            result |-> r[1]]
  /\ UNCHANGED <<unmaps, mainVars, packVars, storeVars, argVars, callVars>>

GatlingMunmap ==
  /\ \E addr \in {NULL} \cup Recorded(mapped_ranges) \cup address_space
                 \cup {UnusedAddress} :
       LET range == FirstEntry(mapped_ranges, addr)
           len == IF range = 0 THEN 0 ELSE mapped_ranges[range].byte_count
       IN  /\ addr \in Recorded(mapped_ranges) => unmaps < MaxUnmaps
           /\ \E munmap_ok \in MunmapOutcomes(addr, len) :
                LET r == gatling_munmap(mapped_ranges, addr, munmap_ok)
                IN  /\ mapped_ranges' = r[2]
                    /\ address_space' =
                         IF range # 0 /\ munmap_ok
                         THEN address_space \ {addr} ELSE address_space
                    /\ file_call' = [op |-> "gatling_munmap", addr |-> addr,
                                     result |-> r[1]]
           /\ unmaps' = IF addr \in Recorded(mapped_ranges)
                        THEN unmaps + 1 ELSE unmaps
  /\ UNCHANGED <<mainVars, packVars, storeVars, argVars, callVars>>

TableNext == GatlingMmap \/ GatlingMunmap

SpecTable == TableInit /\ [][TableNext]_vars

\* C29: at most 16 ranges are recorded at any time; a gatling_mmap call with
\* byte_count 0, with every entry in use, or whose mmap fails returns NULL and
\* leaves the table unchanged; a gatling_munmap of an address that is not
\* recorded returns false and leaves the table unchanged; after a
\* gatling_munmap of a recorded address its entry is free for reuse
C29_RangeTable ==
  [][ /\ Cardinality(Recorded(mapped_ranges')) <= MAX_MAPPED_MEM_RANGES
      /\ Len(mapped_ranges') = MAX_MAPPED_MEM_RANGES
      /\ file_call'.op = "gatling_mmap" =>
           /\ (\/ file_call'.byte_count = 0
               \/ FirstEntry(mapped_ranges, NULL) = 0
               \/ ~file_call'.mapped)
                => (file_call'.result = NULL /\ mapped_ranges' = mapped_ranges)
           /\ file_call'.result # NULL =>
                /\ file_call'.result \notin Recorded(mapped_ranges)
                /\ Recorded(mapped_ranges') =
                     Recorded(mapped_ranges) \cup {file_call'.result}
      /\ file_call'.op = "gatling_munmap" =>
           IF file_call'.addr \in Recorded(mapped_ranges)
           THEN /\ mapped_ranges'[FirstEntry(mapped_ranges, file_call'.addr)].addr = NULL
                /\ Recorded(mapped_ranges') =
                     Recorded(mapped_ranges) \ {file_call'.addr}
                /\ FirstEntry(mapped_ranges', NULL) # 0
           ELSE /\ file_call'.result = FALSE
                /\ mapped_ranges' = mapped_ranges
    ]_vars

(* ------------------------------------------------------------------ *)
(* gatling_parse_args (main.c 242-336) on its own, for command lines   *)
(* drawn from CommandLines.  An argument is a path or name[=value];    *)
(* a value is a string of characters.  The camera options, which are   *)
(* read with sscanf and strtof, are left out of the command lines.     *)
(* ------------------------------------------------------------------ *)
\* the options explored after the two paths
MaxOptions == 1
DEFAULT_IMAGE_WIDTH == 1920
DEFAULT_IMAGE_HEIGHT == 1080
DEFAULT_SPP == 256
DEFAULT_BOUNCES == 4
DEFAULT_POOL_RAY_COUNT == 18279321

CountOptions ==
  {"--image-width", "--image-height", "--spp", "--bounces", "--pool-ray-count"}
Field(name) ==
  CASE name = "--image-width" -> "image_width"
    [] name = "--image-height" -> "image_height"
    [] name = "--spp" -> "spp"
    [] name = "--bounces" -> "bounces"
    [] name = "--pool-ray-count" -> "pool_ray_count"
\* the values given to the options: empty, a count, a negative number, a count
\* followed by another character, and no number at all
Values == {<<>>, <<"7">>, <<"-", "7">>, <<"7", "x">>, <<"x">>}
PathArg == [name |-> "path", eq |-> FALSE, value |-> <<>>]
OptionArgs ==
  [name : CountOptions \cup {"--bogus"}, eq : {TRUE}, value : Values]
    \cup [name : CountOptions \cup {"--bogus"}, eq : {FALSE}, value : {<<>>}]
CommandLines ==
  UNION {{[i \in 1 .. paths |-> PathArg] \o opts :
            opts \in UNION {[1 .. n -> OptionArgs] : n \in 0 .. MaxOptions}} :
         paths \in 0 .. 2}

IsDigit(c) == c \in {"0", "1", "2", "3", "4", "5", "6", "7", "8", "9"}
DigitValue(c) ==
  CASE c = "0" -> 0 [] c = "1" -> 1 [] c = "2" -> 2 [] c = "3" -> 3
    [] c = "4" -> 4 [] c = "5" -> 5 [] c = "6" -> 6 [] c = "7" -> 7
    [] c = "8" -> 8 [] c = "9" -> 9

\* the digits of s from position i on: their value after acc, and the position
\* of the last one
RECURSIVE ScanDigits(_, _, _)
ScanDigits(s, i, acc) ==
  IF i <= Len(s) /\ IsDigit(s[i])
  THEN ScanDigits(s, i + 1, acc * 10 + DigitValue(s[i]))
  ELSE <<acc, i - 1>>

\* strtol(value, &endptr, 10): an optional sign and the longest run of digits;
\* endptr is the count of characters converted, 0 meaning endptr == value
strtol(s) ==
  LET negative == Len(s) >= 1 /\ s[1] = "-"
      first == IF negative \/ (Len(s) >= 1 /\ s[1] = "+") THEN 2 ELSE 1
      r == ScanDigits(s, first, 0)
  IN  IF r[2] < first
      THEN [value |-> 0, endptr |-> 0]
      ELSE [value |-> IF negative THEN 0 - r[1] ELSE r[1], endptr |-> r[2]]

DefaultOptions ==
  [image_width |-> DEFAULT_IMAGE_WIDTH, image_height |-> DEFAULT_IMAGE_HEIGHT,
   spp |-> DEFAULT_SPP, bounces |-> DEFAULT_BOUNCES,
   pool_ray_count |-> DEFAULT_POOL_RAY_COUNT]

ArgsInit ==
  /\ argv \in CommandLines
  /\ arg_index = 0
  /\ parsed = <<>>
  /\ parse_status = "start"
  /\ MainStart(CHOOSE opts \in ProgramOptions : TRUE)
  /\ LayoutIdle
  /\ StoresIdle
  /\ TableIdle
  /\ CallsIdle

gatling_print_usage_and_exit == parse_status' = "usage"

\* the check of argc and the defaults (main.c 244-257); argc counts argv[0]
ParseArgsBegin ==
  /\ parse_status = "start"
  /\ IF Len(argv) + 1 < 3
     THEN gatling_print_usage_and_exit /\ UNCHANGED <<arg_index, parsed>>
     ELSE /\ parsed' = DefaultOptions
          /\ arg_index' = 3
          /\ parse_status' = "parsing"
  /\ UNCHANGED <<argv, mainVars, packVars, storeVars, tableVars, callVars>>

\* one pass of the loop (main.c 259-334)
ParseOption ==
  /\ parse_status = "parsing"
  /\ arg_index < Len(argv) + 1
  /\ LET arg == argv[arg_index]
         r == strtol(arg.value)
     IN  IF ~arg.eq
         THEN gatling_print_usage_and_exit /\ parsed' = parsed
         ELSE IF arg.name \in CountOptions
         THEN /\ parsed' = [parsed EXCEPT ![Field(arg.name)] = U32(r.value)]
              /\ IF r.endptr = 0
                 THEN gatling_print_usage_and_exit
                 ELSE parse_status' = parse_status
         ELSE gatling_print_usage_and_exit /\ parsed' = parsed
  /\ arg_index' = arg_index + 1
  /\ UNCHANGED <<argv, mainVars, packVars, storeVars, tableVars, callVars>>

\* the loop ends and gatling_parse_args returns to main
ParseArgsReturn ==
  /\ parse_status = "parsing"
  /\ arg_index >= Len(argv) + 1
  /\ parse_status' = "done"
  /\ UNCHANGED <<argv, arg_index, parsed, mainVars, packVars, storeVars, tableVars,
                 callVars>>

ArgsNext == ParseArgsBegin \/ ParseOption \/ ParseArgsReturn

SpecArgs == ArgsInit /\ [][ArgsNext]_vars

\* a value that is entirely a count: one or more digits and nothing else
IsCount(s) == Len(s) >= 1 /\ \A i \in 1 .. Len(s) : IsDigit(s[i])
MalformedOption(arg) ==
  \/ arg.name \notin CountOptions
  \/ ~arg.eq
  \/ ~IsCount(arg.value)
Malformed(line) ==
  \/ Cardinality({i \in 1 .. Len(line) : line[i] = PathArg}) < 2
  \/ \E i \in 1 .. Len(line) : line[i] # PathArg /\ MalformedOption(line[i])
Given(line) == {line[i].name : i \in 3 .. Len(line)}

\* C24: a command line that lacks a positional path or holds a malformed
\* option (unknown name, no '=', empty value, a value that is not entirely a
\* count) ends in the usage text and a non-zero exit before any device is
\* created; on the others every option not given keeps its default
C24_MalformedCommandLineRejected ==
  /\ parse_status = "done" =>
       /\ ~Malformed(argv)
       /\ \A name \in CountOptions \ Given(argv) :
            parsed[Field(name)] = DefaultOptions[Field(name)]
  /\ parse_status \in {"start", "parsing", "done", "usage"} => resources = {}

(* ------------------------------------------------------------------ *)
(* The cgpu functions statement by statement (cgpu.c 986-2327): the    *)
(* order in which a function resolves handles into pointers, allocates *)
(* and frees handles, and reads or writes through the pointers in its  *)
(* Vulkan calls.  A function is the list of its steps; a step that can *)
(* fail carries the steps of its failure exit.                         *)
(* ------------------------------------------------------------------ *)
\* the cgpu functions entered in one run
MaxCalls == 4
ishader_store_capacity == 16
ibuffer_store_capacity == 16
ipipeline_store_capacity == 8
icommand_buffer_store_capacity == 16
CallKinds == {"device", "shader", "buffer", "pipeline", "command_buffer", "fence"}
CallCapacity ==
  [device |-> idevice_store_capacity, shader |-> ishader_store_capacity,
   buffer |-> ibuffer_store_capacity, pipeline |-> ipipeline_store_capacity,
   command_buffer |-> icommand_buffer_store_capacity,
   fence |-> ifence_store_capacity]

\* cgpu_resolve_<kind>(<name>.handle, &i<name>), with return
\* CGPU_FAIL_INVALID_HANDLE when it fails
Resolve(kind, name) ==
  [op |-> "resolve", kind |-> kind, name |-> name, uses |-> {}, fail |-> <<>>,
   code |-> "CGPU_FAIL_INVALID_HANDLE"]
\* <new>->handle = resource_store_create_handle(&i<kind>_store)
Allocate(kind) ==
  [op |-> "allocate", kind |-> kind, name |-> "new", uses |-> {}, fail |-> <<>>,
   code |-> "none"]
\* a Vulkan call or a check that reads or writes through the pointers `uses`;
\* `fail` is what the function does when it fails, <<>> when it cannot
Native(uses, fail) ==
  [op |-> "native", kind |-> "none", name |-> "none", uses |-> uses,
   fail |-> fail, code |-> "none"]
\* resource_store_free_handle(&i<kind>_store, <name>.handle)
Free(kind, name) ==
  [op |-> "free", kind |-> kind, name |-> name, uses |-> {}, fail |-> <<>>,
   code |-> "none"]
Return(code) ==
  [op |-> "return", kind |-> "none", name |-> "none", uses |-> {},
   fail |-> <<>>, code |-> code]

\* cgpu.c 986-1176
cgpu_create_device_steps ==
  <<Allocate("device"), Resolve("device", "new"),
    Native({"new"}, <<Free("device", "new"),
                      Return("CGPU_FAIL_NO_DEVICE_AT_INDEX")>>),
    Native({"new"}, <<Free("device", "new"),
                      Return("CGPU_FAIL_CAN_NOT_CREATE_LOGICAL_DEVICE")>>),
    Native({"new"}, <<Free("device", "new"), Native({"new"}, <<>>),
                      Return("CGPU_FAIL_CAN_NOT_CREATE_COMMAND_POOL")>>),
    Return("CGPU_OK")>>

\* cgpu.c 1201-1237
cgpu_create_shader_steps ==
  <<Resolve("device", "device"), Allocate("shader"), Resolve("shader", "new"),
    Native({"device", "new"},
           <<Free("shader", "new"),
             Return("CGPU_FAIL_UNABLE_TO_CREATE_SHADER_MODULE")>>),
    Return("CGPU_OK")>>

\* cgpu.c 1263-1382
cgpu_create_buffer_steps ==
  <<Resolve("device", "device"), Allocate("buffer"), Resolve("buffer", "new"),
    Native({"device", "new"},
           <<Free("buffer", "new"), Return("CGPU_FAIL_UNABLE_TO_CREATE_BUFFER")>>),
    Native({"device", "new"},
           <<Free("buffer", "new"), Return("CGPU_FAIL_NO_SUITABLE_MEMORY_TYPE")>>),
    Native({"device", "new"},
           <<Free("buffer", "new"), Return("CGPU_FAIL_UNABLE_TO_ALLOCATE_MEMORY")>>),
    Native({"device", "new"}, <<>>),
    Return("CGPU_OK")>>

\* cgpu.c 1384-1411
cgpu_destroy_buffer_steps ==
  <<Resolve("device", "device"), Resolve("buffer", "buffer"),
    Native({"device", "buffer"}, <<>>), Free("buffer", "buffer"),
    Return("CGPU_OK")>>

\* cgpu.c 1675-1981, for one shader resource buffer and no image
cgpu_create_pipeline_steps ==
  <<Resolve("device", "device"), Resolve("shader", "shader"),
    Allocate("pipeline"), Resolve("pipeline", "new"),
    Native({"device", "new"},
           <<Free("pipeline", "new"),
             Return("CGPU_FAIL_UNABLE_TO_CREATE_DESCRIPTOR_LAYOUT")>>),
    Native({"device", "new"},
           <<Free("pipeline", "new"), Native({"device", "new"}, <<>>),
             Return("CGPU_FAIL_UNABLE_TO_CREATE_PIPELINE_LAYOUT")>>),
    Native({"device", "shader", "new"},
           <<Free("pipeline", "new"), Native({"device", "new"}, <<>>),
             Return("CGPU_FAIL_UNABLE_TO_CREATE_COMPUTE_PIPELINE")>>),
    Native({"device", "new"},
           <<Free("pipeline", "new"), Native({"device", "new"}, <<>>),
             Return("CGPU_FAIL_UNABLE_TO_CREATE_DESCRIPTOR_POOL")>>),
    Native({"device", "new"},
           <<Free("pipeline", "new"), Native({"device", "new"}, <<>>),
             Return("CGPU_FAIL_UNABLE_TO_ALLOCATE_DESCRIPTOR_SET")>>),
    Resolve("buffer", "buffer"),
    Native({"device"}, <<Return("CGPU_FAIL_BUFFER_OFFSET_NOT_ALIGNED")>>),
    Native({"device", "buffer", "new"}, <<>>),
    Return("CGPU_OK")>>

\* cgpu.c 1983-2020
cgpu_destroy_pipeline_steps ==
  <<Resolve("device", "device"), Resolve("pipeline", "pipeline"),
    Native({"device", "pipeline"}, <<>>), Free("pipeline", "pipeline"),
    Return("CGPU_OK")>>

\* cgpu.c 2022-2055
cgpu_create_command_buffer_steps ==
  <<Resolve("device", "device"), Allocate("command_buffer"),
    Resolve("command_buffer", "new"),
    Native({"device", "new"},
           <<Return("CGPU_FAIL_UNABLE_TO_ALLOCATE_COMMAND_BUFFER")>>),
    Return("CGPU_OK")>>

\* cgpu.c 2136-2169
cgpu_cmd_copy_buffer_steps ==
  <<Resolve("command_buffer", "command_buffer"),
    Resolve("buffer", "source_buffer"), Resolve("buffer", "destination_buffer"),
    Native({"command_buffer", "source_buffer", "destination_buffer"}, <<>>),
    Return("CGPU_OK")>>

\* faulty variant: the handle is taken from, and resolved in, the device store
cgpu_create_fence_steps_mut ==
  <<Resolve("device", "device"), Allocate("device"), Resolve("device", "new"),
    Native({"device", "new"},
           <<Free("device", "new"), Return("CGPU_FAIL_UNABLE_TO_CREATE_FENCE")>>),
    Return("CGPU_OK")>>
\* cgpu.c 2274-2306
cgpu_create_fence_steps ==
  <<Resolve("device", "device"), Allocate("fence"), Resolve("fence", "new"),
    Native({"device", "new"},
           <<Free("fence", "new"), Return("CGPU_FAIL_UNABLE_TO_CREATE_FENCE")>>),
    Return("CGPU_OK")>>

\* faulty variant: the fence handle is not resolved before it is used
cgpu_destroy_fence_steps_mut ==
  <<Resolve("device", "device"),
    Native({"device", "fence"}, <<>>), Free("fence", "fence"),
    Return("CGPU_OK")>>
\* cgpu.c 2308-2327
cgpu_destroy_fence_steps ==
  <<Resolve("device", "device"), Resolve("fence", "fence"),
    Native({"device", "fence"}, <<>>), Free("fence", "fence"),
    Return("CGPU_OK")>>

CreateFunctions ==
  {"cgpu_create_device", "cgpu_create_shader", "cgpu_create_buffer",
   "cgpu_create_pipeline", "cgpu_create_command_buffer", "cgpu_create_fence"}
DestroyFunctions ==
  {"cgpu_destroy_buffer", "cgpu_destroy_pipeline", "cgpu_destroy_fence"}
Functions == CreateFunctions \cup DestroyFunctions \cup {"cgpu_cmd_copy_buffer"}

Program(fn) ==
  CASE fn = "cgpu_create_device" -> cgpu_create_device_steps
    [] fn = "cgpu_create_shader" -> cgpu_create_shader_steps
    [] fn = "cgpu_create_buffer" -> cgpu_create_buffer_steps
    [] fn = "cgpu_destroy_buffer" -> cgpu_destroy_buffer_steps
    [] fn = "cgpu_create_pipeline" -> cgpu_create_pipeline_steps
    [] fn = "cgpu_destroy_pipeline" -> cgpu_destroy_pipeline_steps
    [] fn = "cgpu_create_command_buffer" -> cgpu_create_command_buffer_steps
    [] fn = "cgpu_cmd_copy_buffer" -> cgpu_cmd_copy_buffer_steps
    [] fn = "cgpu_create_fence" -> cgpu_create_fence_steps
    [] fn = "cgpu_destroy_fence" -> cgpu_destroy_fence_steps

\* the handle parameters of a function: <<name, store>>
Params(fn) ==
  CASE fn = "cgpu_create_device" -> {}
    [] fn \in {"cgpu_create_shader", "cgpu_create_command_buffer",
               "cgpu_create_fence", "cgpu_create_buffer"} ->
         {<<"device", "device">>}
    [] fn = "cgpu_destroy_buffer" -> {<<"device", "device">>, <<"buffer", "buffer">>}
    [] fn = "cgpu_create_pipeline" ->
         {<<"device", "device">>, <<"shader", "shader">>, <<"buffer", "buffer">>}
    [] fn = "cgpu_destroy_pipeline" ->
         {<<"device", "device">>, <<"pipeline", "pipeline">>}
    [] fn = "cgpu_cmd_copy_buffer" ->
         {<<"command_buffer", "command_buffer">>, <<"source_buffer", "buffer">>,
          <<"destination_buffer", "buffer">>}
    [] fn = "cgpu_destroy_fence" -> {<<"device", "device">>, <<"fence", "fence">>}
\* the resource a destroy function is called for: <<name, store>>
DestroyedBy(fn) ==
  CASE fn = "cgpu_destroy_buffer" -> <<"buffer", "buffer">>
    [] fn = "cgpu_destroy_pipeline" -> <<"pipeline", "pipeline">>
    [] fn = "cgpu_destroy_fence" -> <<"fence", "fence">>

\* the handles that resolve in a store, and the handles of its freed slots
LiveHandles(store) ==
  {[index |-> i - 1, generation |-> store.slots[i].generation] :
     i \in {j \in 1 .. Len(store.slots) : store.slots[j].occupied}}
FreedHandles(store) ==
  {[index |-> i - 1,
    generation |-> (store.slots[i].generation + GenMod - 1) % GenMod] :
     i \in {j \in 1 .. Len(store.slots) : store.slots[j].frees > 0}}
\* what a caller may pass for a handle of `kind`: a live handle, the handle of a
\* freed resource, or a value no store has issued
Candidates(kind) ==
  LiveHandles(stores[kind]) \cup FreedHandles(stores[kind]) \cup {InvalidHandle}

Running == frame.fn # "none" /\ frame.steps # <<>>
Finished == frame.fn # "none" /\ frame.steps = <<>>
Step == Head(frame.steps)
ArgOf(name) ==
  IF \E a \in frame.args : a[1] = name
  THEN (CHOOSE a \in frame.args : a[1] = name)[2]
  ELSE InvalidHandle

\* cgpu_initialize has created the stores (cgpu.c 950-956)
CallsInit ==
  /\ stores = [kind \in CallKinds |-> resource_store_create(CallCapacity[kind])]
  /\ live = {}
  /\ nlive = 0
  /\ freed = {}
  /\ frees_done = 0
  /\ last_call = [result |-> "none", stale |-> FALSE]
  /\ frame = [fn |-> "none"]
  /\ call_count = 0
  /\ MainStart(CHOOSE opts \in ProgramOptions : TRUE)
  /\ LayoutIdle
  /\ TableIdle
  /\ ArgsIdle

otherVars == <<live, nlive, freed, frees_done, last_call, mainVars, packVars,
               tableVars, argVars>>

\* a caller enters a cgpu function with handles of its choice
CallBegin ==
  /\ ~Running
  /\ call_count < MaxCalls
  /\ \E fn \in Functions :
       \E args \in SUBSET UNION {{<<p[1], h>> : h \in Candidates(p[2])} :
                                  p \in Params(fn)} :
         /\ \A p \in Params(fn) :
              Cardinality({a \in args : a[1] = p[1]}) = 1
         /\ frame' = [fn |-> fn, steps |-> Program(fn), args |-> args,
                      ptrs |-> {}, result |-> "none", before |-> stores,
                      grown |-> {}, natives |-> 0]
  /\ call_count' = call_count + 1
  /\ UNCHANGED <<stores, otherVars>>

StepResolve ==
  /\ Running
  /\ Step.op = "resolve"
  /\ LET handle == ArgOf(Step.name)
     IN  IF resource_store_get(stores[Step.kind], handle)
         THEN frame' =
                [frame EXCEPT
                   !.steps = Tail(@),
                   !.ptrs = {p \in @ : p.name # Step.name}
                              \cup {[name |-> Step.name, kind |-> Step.kind,
                                     handle |-> handle,
                                     len |-> Len(stores[Step.kind].slots)]}]
         ELSE frame' = [frame EXCEPT !.steps = <<>>, !.result = Step.code]
  /\ UNCHANGED <<stores, call_count, otherVars>>

StepAllocate ==
  /\ Running
  /\ Step.op = "allocate"
  /\ \E grow_ok \in IF stores[Step.kind].free_list = <<>> THEN BOOLEAN ELSE {TRUE} :
       LET r == resource_store_create_handle(stores[Step.kind], grow_ok)
       IN  /\ stores' = [stores EXCEPT ![Step.kind] = r[2]]
           /\ frame' =
                [frame EXCEPT
                   !.steps = Tail(@),
                   !.args = {a \in @ : a[1] # "new"} \cup {<<"new", r[1]>>},
                   !.grown = IF Len(r[2].slots) # Len(stores[Step.kind].slots)
                             THEN @ \cup {Step.kind} ELSE @]
  /\ UNCHANGED <<call_count, otherVars>>

StepNative ==
  /\ Running
  /\ Step.op = "native"
  /\ \E ok \in IF Step.fail = <<>> THEN {TRUE} ELSE BOOLEAN :
       frame' = [frame EXCEPT !.steps = IF ok THEN Tail(@) ELSE Step.fail,
                              !.natives = @ + 1]
  /\ UNCHANGED <<stores, call_count, otherVars>>

StepFree ==
  /\ Running
  /\ Step.op = "free"
  /\ stores' = [stores EXCEPT
                  ![Step.kind] = resource_store_free_handle(@, ArgOf(Step.name))]
  /\ frame' = [frame EXCEPT !.steps = Tail(@)]
  /\ UNCHANGED <<call_count, otherVars>>

StepReturn ==
  /\ Running
  /\ Step.op = "return"
  /\ frame' = [frame EXCEPT !.steps = <<>>, !.result = Step.code]
  /\ UNCHANGED <<stores, call_count, otherVars>>

CallsNext ==
  \/ CallBegin \/ StepResolve \/ StepAllocate \/ StepNative \/ StepFree
  \/ StepReturn

SpecCalls == CallsInit /\ [][CallsNext]_vars

\* the pointers the next statement reads or writes through
Uses ==
  IF Running /\ Step.op = "native"
  THEN {p \in frame.ptrs : p.name \in Step.uses}
  ELSE {}

C25_FailedCreateLeavesNoHandle ==
  (Finished /\ frame.fn \in CreateFunctions /\ frame.result # "CGPU_OK")
    => \A kind \in CallKinds :
         LiveHandles(stores[kind]) = LiveHandles(frame.before[kind])

\* --------------------------------------------------------------------------
\* C26: no cgpu function reads the internal data of a resource through a
\* resolved pointer after the handle of that resource has been freed: at every
\* statement that goes through a pointer, the handle it was resolved from
\* still resolves
C26_NoReadAfterFree ==
  \A p \in Uses : resource_store_get(stores[p.kind], p.handle)

====
